---------------------------- MODULE Spec2Model ----------------------------
(***************************************************************************)
(* A model of the gosoaap call-graph engine (graphing.go), its string set  *)
(* (strset.go) and the trace resolver (results.go).                        *)
(*                                                                         *)
(* Representation choices, each forced by the Go semantics of the source:  *)
(*  - a strset is a Go map, i.e. a reference.  The CVE, Owners and Tags    *)
(*    sets of a GraphNode are therefore references into `heap'; copying a  *)
(*    GraphNode copies the references, not the sets.                       *)
(*  - the maps owned by a CallGraph (nodes, roots, leaves, calls, flows)   *)
(*    and the local strsets of the algorithms are only ever written        *)
(*    through their single owner, so they are kept as values.              *)
(*  - the CallsIn/CallsOut/FlowsIn/FlowsOut slices of a node are written   *)
(*    only through UpdateCalls, which never stores a duplicate, and are    *)
(*    read only for their length, their members, or by ranging over them   *)
(*    with commuting effects: they are kept as finite sets of calls.       *)
(*  - a node name is Function + " : " + Sandbox; it is kept as the pair    *)
(*    <<Function, Sandbox>>, and the empty string (the Name of a zero      *)
(*    GraphNode) as <<"", "">>; no modelled call site has an empty         *)
(*    function name, so the two never collide.                             *)
(*  - the statements of a Go function are sequenced with                   *)
(*    Let(v, LAMBDA x : ...), read as `x := v' followed by the rest of     *)
(*    the function, so that the operators follow the order of the code.    *)
(***************************************************************************)
EXTENDS Integers, Sequences, FiniteSets, TLC

VARIABLES cg,      \* the accumulator graph, the receiver of the operations
          g,       \* the operand graph, as last extracted from Results
          heap,    \* the storage of every strset that is held by reference
          sv,      \* strset variables s, t, r of the string-set operations
          op,      \* the operation that produced this state, with its inputs
          old,     \* cg, g and heap as they were before that operation
          steps,   \* number of operations applied so far
          run      \* arguments and result of the one library call that the
                   \* single-call specifications examine; NoRun elsewhere

vars == <<cg, g, heap, sv, op, old, steps, run>>

-----------------------------------------------------------------------------
(* Bounds of the exploration.                                              *)

MaxSteps == 4
MaxDepth == 2
MaxSetSteps == 2
MaxWeightSteps == 6
MaxSites == 2
MaxTraces == 2
MaxFindings == 2
MaxNodeSteps == 4

-----------------------------------------------------------------------------
(* Go maps as TLA+ functions with a finite domain.                         *)

MapGet(m, k, zero) == IF k \in DOMAIN m THEN m[k] ELSE zero

MapPut(m, k, v) == [x \in (DOMAIN m) \cup {k} |-> IF x = k THEN v ELSE m[x]]

EmptyMap == [x \in {} |-> 0]

\* a Go local variable: `x := v' followed by the code F that uses x
Let(v, F(_)) == F(v)

-----------------------------------------------------------------------------
(* strset.go: a strset is a reference to a map; Nil is the nil map.        *)

Nil == 0

EmptyHeap == [cells |-> <<>>, panic |-> FALSE]

Elems(h, ref) == IF ref = Nil THEN {} ELSE h.cells[ref]

\* make(strset) / strset{} followed by the given insertions
NewSet(h, elems) ==
    [heap |-> [h EXCEPT !.cells = Append(@, elems)], ref |-> Len(h.cells) + 1]

\* writing a key into the map behind ref; a write to the nil map panics
SetWrite(h, ref, keys) ==
    IF keys = {} THEN h
    ELSE IF ref = Nil THEN [h EXCEPT !.panic = TRUE]
    ELSE [h EXCEPT !.cells[ref] = @ \cup keys]

strsetAdd(h, s, key) == SetWrite(h, s, {key})

strsetContains(h, s, key) == key \in Elems(h, s)

strsetRemove(h, s, key) ==
    IF s = Nil THEN h ELSE [h EXCEPT !.cells[s] = @ \ {key}]

strsetIntersection(h, s, other) ==
    NewSet(h, {k \in Elems(h, s) : k \in Elems(h, other)})

\* result := s makes result the same map as s; the loop writes into it
strsetUnion(h, s, other) ==
    [heap |-> SetWrite(h, s, Elems(h, other)), ref |-> s]

-----------------------------------------------------------------------------
(* results.go: source locations, call sites, traces, findings.             *)

NoLocation == [File |-> "", Line |-> 0, Library |-> ""]

Loc(file, line) == [File |-> file, Line |-> line, Library |-> "lib"]

Site(fn, line) == [Function |-> fn, Location |-> Loc("f.c", line)]

UnknownSite(fn) == [Function |-> fn, Location |-> NoLocation]

NoCallSite == [Function |-> "", Location |-> NoLocation]

Sa == Site("a", 1)
Sb == Site("b", 2)
Sc == Site("c", 3)
Sd == Site("d", 4)

\* CallTrace.Foreach: the call sites fn is applied to, in order, and the
\* error returned.  The error of the recursive call is dropped by the code.
\* A chain of Next references that never ends is reported as div.
\* Foreach that does not follow Next
ForeachOnce(t, traces, fuel) ==
    [sites |-> SelectSeq(t.CallSites, LAMBDA cs : cs.Location.File # ""),
     err |-> t.Next >= Len(traces), div |-> FALSE]

RECURSIVE Foreach(_, _, _)
Foreach(t, traces, fuel) ==
    LET own == SelectSeq(t.CallSites, LAMBDA cs : cs.Location.File # "")
    IN  IF t.Next >= 0
        THEN IF t.Next >= Len(traces)
             THEN [sites |-> own, err |-> TRUE, div |-> FALSE]
             ELSE IF fuel = 0
                  THEN [sites |-> own, err |-> FALSE, div |-> TRUE]
                  ELSE LET rest == Foreach(traces[t.Next + 1], traces, fuel - 1)
                       IN  [sites |-> own \o rest.sites, err |-> FALSE,
                            div |-> rest.div]
        ELSE [sites |-> own, err |-> FALSE, div |-> FALSE]

-----------------------------------------------------------------------------
(* graphing.go: nodes, calls and the CallGraph.                            *)

EmptyName == <<"", "">>

NodeName(fn, sandbox) == <<fn, sandbox>>

\* the zero value of GraphNode, which a Go map returns for a missing key
ZeroNode ==
    [Name |-> EmptyName, Function |-> "", Library |-> "", Sandbox |-> "",
     CVE |-> Nil, Owners |-> Nil, Tags |-> Nil,
     CallsIn |-> {}, CallsOut |-> {}, FlowsIn |-> {}, FlowsOut |-> {}]

NewCallGraph ==
    [nodes |-> EmptyMap, roots |-> {}, leaves |-> {},
     calls |-> EmptyMap, flows |-> EmptyMap]

newGraphNode(h, cs, sandbox) ==
    Let(NewSet(h, {}), LAMBDA a :
    Let(NewSet(a.heap, {}), LAMBDA b :
    Let(NewSet(b.heap, {}), LAMBDA c :
        [heap |-> c.heap,
         node |-> [Name |-> NodeName(cs.Function, sandbox),
                   Function |-> cs.Function,
                   Library |-> cs.Location.Library,
                   Sandbox |-> sandbox,
                   CVE |-> a.ref, Owners |-> b.ref, Tags |-> c.ref,
                   CallsIn |-> {}, CallsOut |-> {},
                   FlowsIn |-> {}, FlowsOut |-> {}]])))

\* a call recorded from the callee to the caller
newCallReversed(caller, callee, cs, sandbox) ==
    [Caller |-> callee.Name, Callee |-> caller.Name,
     CallSite |-> cs.Location, Sandbox |-> sandbox]

newCall(caller, callee, cs, sandbox) ==
    [Caller |-> caller.Name, Callee |-> callee.Name,
     CallSite |-> cs.Location, Sandbox |-> sandbox]

\* UpdateCalls appends each call that the slice does not hold yet
UpdateCalls(current, calls) == current \cup calls

\* GraphNode.Update: n is the receiver (the node being added), e the node
\* already stored.  The strset Union results are discarded by the code, so
\* only what Union writes into the receiver's maps has an effect.
Update(h, n, e) ==
    [heap |-> strsetUnion(
                 strsetUnion(
                    strsetUnion(h, n.CVE, e.CVE).heap,
                    n.Owners, e.Owners).heap,
                 n.Tags, e.Tags).heap,
     node |-> [n EXCEPT
                 !.Library = IF n.Library = "" THEN e.Library ELSE @,
                 !.CallsIn = UpdateCalls(@, e.CallsIn),
                 !.CallsOut = UpdateCalls(@, e.CallsOut),
                 !.FlowsIn = UpdateCalls(@, e.FlowsIn),
                 !.FlowsOut = UpdateCalls(@, e.FlowsOut)]]

\* CallGraph.AddNode; returns the graph and the heap
AddNode(G, h, node) ==
    Let(IF node.Name \in DOMAIN G.nodes
        THEN Update(h, node, G.nodes[node.Name])
        ELSE [heap |-> h, node |-> node], LAMBDA u :
        [heap |-> u.heap,
         graph |-> [G EXCEPT
            !.nodes = MapPut(@, node.Name, u.node),
            !.roots = IF u.node.CallsIn = {} /\ u.node.FlowsIn = {}
                      THEN @ \cup {node.Name} ELSE @,
            !.leaves = IF u.node.CallsOut = {} /\ u.node.FlowsOut = {}
                       THEN @ \cup {node.Name} ELSE @]])

\* AddCall without the bookkeeping of roots and leaves
AddCallKeepingRoots(G, call) ==
    Let(MapPut(G.nodes, call.Caller,
               [MapGet(G.nodes, call.Caller, ZeroNode) EXCEPT
                  !.CallsOut = UpdateCalls(@, {call})]), LAMBDA n1 :
        [G EXCEPT !.calls = MapPut(@, call, MapGet(@, call, 0) + 1),
                  !.nodes = MapPut(n1, call.Callee,
                                   [MapGet(n1, call.Callee, ZeroNode) EXCEPT
                                      !.CallsIn = UpdateCalls(@, {call})])])

AddCall(G, call) ==
    Let(MapPut(G.nodes, call.Caller,
               [MapGet(G.nodes, call.Caller, ZeroNode) EXCEPT
                  !.CallsOut = UpdateCalls(@, {call})]), LAMBDA n1 :
        [G EXCEPT !.calls = MapPut(@, call, MapGet(@, call, 0) + 1),
                  !.nodes = MapPut(n1, call.Callee,
                                   [MapGet(n1, call.Callee, ZeroNode) EXCEPT
                                      !.CallsIn = UpdateCalls(@, {call})]),
                  !.roots = @ \ {call.Callee},
                  !.leaves = @ \ {call.Caller}])

\* AddCalls that counts the edge once whatever its weight
AddCallsOnce(G, call, weight) == AddCall(G, call)

AddCalls(G, call, weight) ==
    [AddCall(G, call) EXCEPT !.calls[call] = @ + (weight - 1)]

\* a flow recorded as a call
AddFlowAsCall(G, flow) == AddCall(G, flow)

AddFlow(G, flow) ==
    Let(MapPut(G.nodes, flow.Caller,
               [MapGet(G.nodes, flow.Caller, ZeroNode) EXCEPT
                  !.FlowsOut = UpdateCalls(@, {flow})]), LAMBDA n1 :
        [G EXCEPT !.flows = MapPut(@, flow, MapGet(@, flow, 0) + 1),
                  !.nodes = MapPut(n1, flow.Callee,
                                   [MapGet(n1, flow.Callee, ZeroNode) EXCEPT
                                      !.FlowsIn = UpdateCalls(@, {flow})]),
                  !.roots = @ \ {flow.Callee},
                  !.leaves = @ \ {flow.Caller}])

AddFlows(G, flow, weight) ==
    [AddFlow(G, flow) EXCEPT !.flows[flow] = @ + (weight - 1)]

\* `for id := range ids { cg.AddNode(from.nodes[id]) }'
RECURSIVE AddNodesOf(_, _, _, _)
AddNodesOf(G, h, from, ids) ==
    IF ids = {} THEN [graph |-> G, heap |-> h]
    ELSE Let(CHOOSE x \in ids : TRUE, LAMBDA id :
         Let(AddNode(G, h, MapGet(from.nodes, id, ZeroNode)), LAMBDA r :
             AddNodesOf(r.graph, r.heap, from, ids \ {id})))

\* `for call, weight := range m { if keep(call) { cg.AddCalls(call, weight) } }'
RECURSIVE AddCallsOf(_, _, _)
AddCallsOf(G, m, todo) ==
    IF todo = {} THEN G
    ELSE Let(CHOOSE x \in todo : TRUE, LAMBDA c :
             AddCallsOf(AddCalls(G, c, m[c]), m, todo \ {c}))

RECURSIVE AddFlowsOf(_, _, _)
AddFlowsOf(G, m, todo) ==
    IF todo = {} THEN G
    ELSE Let(CHOOSE x \in todo : TRUE, LAMBDA c :
             AddFlowsOf(AddFlows(G, c, m[c]), m, todo \ {c}))

\* CallGraph.Union: cg.Union(o); returns the graph and the heap
Union(G, h, o) ==
    Let(AddNodesOf(G, h, o, DOMAIN o.nodes), LAMBDA r :
        [graph |-> AddFlowsOf(AddCallsOf(r.graph, o.calls, DOMAIN o.calls),
                              o.flows, DOMAIN o.flows),
         heap |-> r.heap])

-----------------------------------------------------------------------------
(* graphing.go: the graph builders.                                        *)

Range(seq) == {seq[i] : i \in 1..Len(seq)}

\* the zero CallGraph returned next to an error
ZeroCallGraph == NewCallGraph

\* The body of the callback that CallTrace.graph hands to Foreach, applied
\* to the resolved call sites in order.  st holds the builder's graph
\* (outer), the trace's own graph (local), the heap and the current callee.
\* makeCall adds the edge to the builder's graph, not to the trace's.
RECURSIVE graphSites(_, _, _, _, _)
graphSites(st, sites, i, sandbox, asFlow) ==
    IF i > Len(sites) THEN st
    ELSE Let(newGraphNode(st.heap, sites[i], sandbox), LAMBDA mk :
         Let(AddNode(st.local, mk.heap, mk.node), LAMBDA ad :
         Let(newCall(mk.node, st.callee, sites[i], sandbox), LAMBDA edge :
             graphSites([outer |-> IF asFlow THEN AddFlow(st.outer, edge)
                                   ELSE AddCall(st.outer, edge),
                         local |-> ad.graph,
                         heap |-> ad.heap,
                         callee |-> mk.node],
                        sites, i + 1, sandbox, asFlow))))

\* CallTrace.graph(top, traces, makeNode, makeCall)
TraceGraph(outer, h, t, traces, top, sandbox, asFlow) ==
    Let(AddNode(NewCallGraph, h, top), LAMBDA first :
    Let(Foreach(t, traces, Len(traces)), LAMBDA walk :
    Let(graphSites([outer |-> outer, local |-> first.graph,
                    heap |-> first.heap, callee |-> top],
                   walk.sites, 1, sandbox, asFlow), LAMBDA st :
        [outer |-> st.outer, local |-> st.local, heap |-> st.heap,
         err |-> walk.err, div |-> walk.div])))

\* results.Traces[i]: an index outside the slice panics
TraceAt(traces, i) ==
    IF i >= 0 /\ i < Len(traces) THEN traces[i + 1]
    ELSE [CallSites |-> <<>>, Next |-> -1]

TraceIndexOk(traces, i) == i >= 0 /\ i < Len(traces)

Panicked(h) == [h EXCEPT !.panic = TRUE]

\* one iteration of the loop of VulnGraph; b = [graph, heap, err, div]
VulnStep(b, v, traces) ==
    IF ~TraceIndexOk(traces, v.Trace)
    THEN [b EXCEPT !.heap = Panicked(@)]
    ELSE Let(newGraphNode(b.heap, v.CallSite, v.Sandbox), LAMBDA mk :
         Let(NewSet(mk.heap, Range(v.CVE)), LAMBDA cves :
         Let([mk.node EXCEPT !.CVE = cves.ref], LAMBDA top :
         Let(AddNode(b.graph, cves.heap, top), LAMBDA ad :
         Let(TraceGraph(ad.graph, ad.heap, TraceAt(traces, v.Trace),
                        traces, top, v.Sandbox, FALSE), LAMBDA tg :
             IF tg.div THEN [b EXCEPT !.div = TRUE]
             ELSE IF tg.err
             THEN [graph |-> ZeroCallGraph, heap |-> tg.heap,
                   err |-> TRUE, div |-> FALSE]
             ELSE Let(Union(tg.outer, tg.heap, tg.local), LAMBDA un :
                      [graph |-> un.graph, heap |-> un.heap,
                       err |-> FALSE, div |-> FALSE]))))))

RECURSIVE VulnLoop(_, _, _, _)
VulnLoop(b, vs, i, traces) ==
    IF i > Len(vs) \/ b.err \/ b.div \/ b.heap.panic THEN b
    ELSE VulnLoop(VulnStep(b, vs[i], traces), vs, i + 1, traces)

VulnGraph(results, h) ==
    VulnLoop([graph |-> NewCallGraph, heap |-> h, err |-> FALSE,
              div |-> FALSE],
             results.Vulnerabilities, 1, results.Traces)

\* the inner loop of PrivAccessGraph over a.Sources
RECURSIVE SourcesLoop(_, _, _, _, _)
SourcesLoop(b, sources, i, top, traces) ==
    IF i > Len(sources) \/ b.err \/ b.div \/ b.heap.panic THEN b
    ELSE IF ~TraceIndexOk(traces, sources[i].Trace)
    THEN [b EXCEPT !.heap = Panicked(@)]
    ELSE Let(TraceGraph(b.graph, b.heap, TraceAt(traces, sources[i].Trace),
                        traces, top, "", TRUE), LAMBDA tg :
             SourcesLoop(
                IF tg.div THEN [b EXCEPT !.div = TRUE]
                ELSE IF tg.err
                THEN [graph |-> ZeroCallGraph, heap |-> tg.heap,
                      err |-> TRUE, div |-> FALSE]
                ELSE Let(Union(tg.outer, tg.heap, tg.local), LAMBDA un :
                         [graph |-> un.graph, heap |-> un.heap,
                          err |-> FALSE, div |-> FALSE]),
                sources, i + 1, top, traces))

\* one iteration of the outer loop of PrivAccessGraph
PrivStep(b, a, traces) ==
    IF ~TraceIndexOk(traces, a.Trace)
    THEN [b EXCEPT !.heap = Panicked(@)]
    ELSE Let(newGraphNode(b.heap, a.CallSite, ""), LAMBDA mk :
         Let(NewSet(mk.heap, Range(a.Sandboxes)), LAMBDA owners :
         Let([mk.node EXCEPT !.Owners = owners.ref], LAMBDA top :
         Let(AddNode(b.graph, owners.heap, top), LAMBDA ad :
         Let(TraceGraph(ad.graph, ad.heap, TraceAt(traces, a.Trace),
                        traces, top, "", FALSE), LAMBDA tg :
             IF tg.div THEN [b EXCEPT !.div = TRUE]
             ELSE IF tg.err
             THEN [graph |-> ZeroCallGraph, heap |-> tg.heap,
                   err |-> TRUE, div |-> FALSE]
             ELSE Let(Union(tg.outer, tg.heap, tg.local), LAMBDA un :
                      SourcesLoop([graph |-> un.graph, heap |-> un.heap,
                                   err |-> FALSE, div |-> FALSE],
                                  a.Sources, 1, top, traces)))))))

RECURSIVE PrivLoop(_, _, _, _)
PrivLoop(b, as, i, traces) ==
    IF i > Len(as) \/ b.err \/ b.div \/ b.heap.panic THEN b
    ELSE PrivLoop(PrivStep(b, as[i], traces), as, i + 1, traces)

PrivAccessGraph(results, h) ==
    PrivLoop([graph |-> NewCallGraph, heap |-> h, err |-> FALSE,
              div |-> FALSE],
             results.PrivateAccess, 1, results.Traces)

\* Results.ExtractGraph
ExtractGraph(results, analysis, h) ==
    IF analysis = "vuln" THEN VulnGraph(results, h)
    ELSE IF analysis = "privaccess" THEN PrivAccessGraph(results, h)
    ELSE [graph |-> ZeroCallGraph, heap |-> h, err |-> TRUE, div |-> FALSE]

-----------------------------------------------------------------------------
(* graphing.go: ancestor collection, intersection, simplification.         *)

Callers(n) == {c.Caller : c \in n.CallsIn}
Callees(n) == {c.Callee : c \in n.CallsOut}
DataSources(n) == {c.Caller : c \in n.FlowsIn}
DataSinks(n) == {c.Callee : c \in n.FlowsOut}
AllInputs(n) == Callers(n) \cup DataSources(n)
AllOutputs(n) == Callees(n) \cup DataSinks(n)

Select(selector, n) ==
    IF selector = "AllInputs" THEN AllInputs(n)
    ELSE IF selector = "AllOutputs" THEN AllOutputs(n)
    ELSE IF selector = "Callers" THEN Callers(n)
    ELSE Callees(n)

\* A recursion that revisits a name on its own path never returns; a path
\* longer than the number of stored names plus one revisits a name.
Fuel(G) == Cardinality(DOMAIN G.nodes) + 2

\* A collection that stops after one hop whatever the depth.
CollectNodesFlat(G, root, selector, depth, fuel) ==
    [nodes |-> IF depth = 0 THEN {root}
               ELSE {root} \cup Select(selector, MapGet(G.nodes, root, ZeroNode)),
     div |-> FALSE]

\* CallGraph.CollectNodes; depth < 0 never reaches the depth == 0 exit.
\* Returns the set and whether the recursion fails to terminate.
RECURSIVE CollectNodes(_, _, _, _, _)
RECURSIVE CollectChildren(_, _, _, _, _, _)
CollectNodes(G, root, selector, depth, fuel) ==
    IF depth = 0 THEN [nodes |-> {root}, div |-> FALSE]
    ELSE IF fuel = 0 THEN [nodes |-> {root}, div |-> TRUE]
    ELSE CollectChildren(G, Select(selector, MapGet(G.nodes, root, ZeroNode)),
                         selector, depth, fuel,
                         [nodes |-> {root}, div |-> FALSE])

CollectChildren(G, ids, selector, depth, fuel, acc) ==
    IF ids = {} \/ acc.div THEN acc
    ELSE Let(CHOOSE x \in ids : TRUE, LAMBDA id :
         Let(CollectNodes(G, id, selector, depth - 1, fuel - 1),
             LAMBDA children :
             CollectChildren(G, ids \ {id}, selector, depth, fuel,
                             [nodes |-> acc.nodes \cup {id} \cup children.nodes,
                              div |-> children.div])))

FuelFor(G, depth) == IF depth >= 0 THEN depth + 1 ELSE Fuel(G)

Collect(G, root, selector, depth) ==
    CollectNodes(G, root, selector, depth, FuelFor(G, depth))

\* ancestors: the union of CollectNodes over the leaves of G
LeafAncestors(G, depth) ==
    UNION {Collect(G, id, "AllInputs", depth).nodes : id \in G.leaves}

\* keep: for every leaf of G whose ancestor set meets `ancestors', that
\* set, and with keepBacktrace also its unbounded ancestor set
KeepOf(G, ancestors, depth, keepBacktrace) ==
    UNION {Collect(G, leaf, "AllInputs", depth).nodes
             \cup (IF keepBacktrace
                   THEN Collect(G, leaf, "AllInputs", -1).nodes ELSE {})
           : leaf \in {l \in G.leaves :
                 Collect(G, l, "AllInputs", depth).nodes \cap ancestors # {}}}

\* whether one of the unbounded walks of KeepOf fails to return
KeepDiverges(G, ancestors, depth, keepBacktrace) ==
    keepBacktrace /\
    \E l \in G.leaves :
        /\ Collect(G, l, "AllInputs", depth).nodes \cap ancestors # {}
        /\ Collect(G, l, "AllInputs", -1).div

Within(m, keep) ==
    {c \in DOMAIN m : c.Caller \in keep /\ c.Callee \in keep}

\* the three loops that copy the kept nodes, calls and flows of `from'
CopyKept(G, h, from, keep) ==
    Let(AddNodesOf(G, h, from, keep), LAMBDA r :
        [graph |-> AddFlowsOf(
                      AddCallsOf(r.graph, from.calls,
                                 Within(from.calls, keep)),
                      from.flows, Within(from.flows, keep)),
         heap |-> r.heap])

\* cg.AddIntersecting(o, depth)
AddIntersecting(G, h, o, depth) ==
    CopyKept(G, h, o, KeepOf(o, LeafAncestors(G, depth), depth, FALSE))

\* cg.Intersect(o, depth, keepBacktrace)
Intersect(G, h, o, depth, keepBacktrace) ==
    Let(LeafAncestors(G, depth), LAMBDA ancestors :
    Let(KeepOf(o, ancestors, depth, keepBacktrace), LAMBDA keep :
    Let(CopyKept(NewCallGraph, h, o, keep), LAMBDA r1 :
    Let(CopyKept(r1.graph, r1.heap, G,
                 KeepOf(G, keep, depth, keepBacktrace)), LAMBDA r2 :
        [graph |-> r2.graph, heap |-> r2.heap,
         div |-> KeepDiverges(o, ancestors, depth, keepBacktrace)
                 \/ KeepDiverges(G, keep, depth, keepBacktrace)]))))

\* walkChain that pays no attention to CVEs
RECURSIVE walkChainBlind(_, _, _, _, _)
walkChainBlind(h, n, nodes, chain, fuel) ==
    IF Cardinality(n.CallsIn) > 1 \/ Cardinality(n.CallsOut) # 1
    THEN [chain |-> chain, div |-> FALSE]
    ELSE Let(CHOOSE c \in n.CallsOut : TRUE, LAMBDA call :
             IF fuel = 0
             THEN [chain |-> chain, div |-> TRUE]
             ELSE walkChainBlind(h, MapGet(nodes, call.Callee, ZeroNode),
                                 nodes, Append(chain, call), fuel - 1))

\* walkChain(start, nodes); chain is the sequence of calls traversed so far
RECURSIVE walkChain(_, _, _, _, _)
walkChain(h, n, nodes, chain, fuel) ==
    IF Cardinality(n.CallsIn) > 1 \/ Cardinality(n.CallsOut) # 1
       \/ Elems(h, n.CVE) # {}
    THEN [chain |-> chain, div |-> FALSE]
    ELSE Let(CHOOSE c \in n.CallsOut : TRUE, LAMBDA call :
         Let(MapGet(nodes, call.Callee, ZeroNode), LAMBDA next :
             IF Elems(h, next.CVE) # {}
             THEN [chain |-> chain, div |-> FALSE]
             ELSE IF fuel = 0
             THEN [chain |-> chain, div |-> TRUE]
             ELSE walkChain(h, next, nodes, Append(chain, call), fuel - 1)))

RECURSIVE ChainWeight(_, _, _)
ChainWeight(calls, chain, i) ==
    IF i > Len(chain) THEN 0
    ELSE MapGet(calls, chain[i], 0) + ChainWeight(calls, chain, i + 1)

\* `for _, f := range begin.FlowsOut { AddNode(old.nodes[f.Callee]); AddFlow(f) }'
RECURSIVE addSimplifiedFlows(_, _, _, _)
addSimplifiedFlows(G, h, todo, oldG) ==
    IF todo = {} THEN [graph |-> G, heap |-> h]
    ELSE Let(CHOOSE x \in todo : TRUE, LAMBDA f :
         Let(AddNode(G, h, MapGet(oldG.nodes, f.Callee, ZeroNode)), LAMBDA ad :
             addSimplifiedFlows(AddFlow(ad.graph, f), ad.heap,
                                todo \ {f}, oldG)))

\* CallGraph.addSimplified(begin, old); st = [graph, heap, div]
RECURSIVE addSimplified(_, _, _, _)
RECURSIVE addSimplifiedCalls(_, _, _, _)
addSimplified(st, begin, oldG, fuel) ==
    IF fuel = 0 THEN [st EXCEPT !.div = TRUE]
    ELSE
    Let(AddNode(st.graph, st.heap, begin), LAMBDA a1 :
    Let(addSimplifiedFlows(a1.graph, a1.heap, begin.FlowsOut, oldG), LAMBDA a2 :
    Let(walkChain(a2.heap, begin, oldG.nodes, <<>>, Fuel(oldG)), LAMBDA wc :
        IF wc.div THEN [st EXCEPT !.div = TRUE]
        ELSE IF Len(wc.chain) = 0
        THEN addSimplifiedCalls([graph |-> a2.graph, heap |-> a2.heap,
                                 div |-> st.div],
                                begin.CallsOut, oldG, fuel)
        ELSE
        Let(wc.chain[Len(wc.chain)], LAMBDA lastCall :
        Let(MapGet(oldG.nodes, lastCall.Callee, ZeroNode), LAMBDA next :
        Let(AddNode(a2.graph, a2.heap, next), LAMBDA a3 :
            addSimplifiedCalls(
               [graph |-> IF Len(wc.chain) = 1
                          THEN AddCall(a3.graph, lastCall)
                          ELSE AddCalls(a3.graph,
                                        newCall(begin, next, NoCallSite,
                                                lastCall.Sandbox),
                                        ChainWeight(oldG.calls, wc.chain, 1)),
                heap |-> a3.heap,
                div |-> st.div],
               next.CallsOut, oldG, fuel)))))))

\* `for _, call := range next.CallsOut { addSimplified(...); AddCall(call) }'
addSimplifiedCalls(st, todo, oldG, fuel) ==
    IF todo = {} \/ st.div THEN st
    ELSE Let(CHOOSE x \in todo : TRUE, LAMBDA call :
         Let(addSimplified(st, MapGet(oldG.nodes, call.Callee, ZeroNode),
                           oldG, fuel - 1), LAMBDA r :
             addSimplifiedCalls([r EXCEPT !.graph = AddCall(@, call)],
                                todo \ {call}, oldG, fuel)))

\* `for r := range cg.roots { g.addSimplified(cg.nodes[r], cg) }'
RECURSIVE SimplifiedRoots(_, _, _)
SimplifiedRoots(st, todo, oldG) ==
    IF todo = {} \/ st.div THEN st
    ELSE Let(CHOOSE x \in todo : TRUE, LAMBDA r :
             SimplifiedRoots(addSimplified(st, MapGet(oldG.nodes, r, ZeroNode),
                                           oldG, Fuel(oldG)),
                             todo \ {r}, oldG))

\* CallGraph.Simplified
Simplified(G, h) ==
    SimplifiedRoots([graph |-> NewCallGraph, heap |-> h, div |-> FALSE],
                    G.roots, G)

-----------------------------------------------------------------------------
(* Inputs: a trace table and findings that refer to it.                    *)

Traces ==
    << [CallSites |-> <<Sa>>, Next |-> -1],               \* 0: a
       [CallSites |-> <<Sb>>, Next |-> 0],                \* 1: b, a
       [CallSites |-> <<Sc>>, Next |-> 1],                \* 2: c, b, a
       [CallSites |-> <<Sb>>, Next |-> -1],               \* 3: b
       [CallSites |-> <<Sc>>, Next |-> -1],               \* 4: c
       [CallSites |-> <<UnknownSite("x")>>, Next |-> -1]  \* 5: nothing
    >>

Vuln(cs, trace, sandbox, cve) ==
    [CallSite |-> cs, Trace |-> trace, Sandbox |-> sandbox, CVE |-> cve]

PrivAccess(cs, trace, owners, sources) ==
    [CallSite |-> cs, Trace |-> trace, Sandboxes |-> owners,
     Sources |-> sources]

DataSource(trace) == [Trace |-> trace]

\* vuln: the chain a -> b -> c -> d with the CVE at d;
\* privaccess: the same chain without any CVE
ResultsChain ==
    [Vulnerabilities |-> << Vuln(Sd, 2, "", <<"CVE-1">>) >>,
     PrivateAccess |-> << PrivAccess(Sd, 2, <<"o1">>, <<>>) >>,
     Traces |-> Traces]

\* vuln: a -> b -> c with a CVE at c, and a -> b -> c -> d with another
\* CVE at d; privaccess: flows a -> b, a -> c and calls b -> c -> d
ResultsFlows ==
    [Vulnerabilities |-> << Vuln(Sc, 1, "", <<"CVE-2">>),
                            Vuln(Sd, 2, "", <<"CVE-2">>) >>,
     PrivateAccess |-> << PrivAccess(Sb, 5, <<"o1">>, <<DataSource(0)>>),
                          PrivAccess(Sc, 3, <<"o2">>, <<DataSource(0)>>),
                          PrivAccess(Sd, 4, <<>>, <<>>) >>,
     Traces |-> Traces]

\* vuln: b -> c, and in sandbox sb the recursive trace b -> a -> b;
\* privaccess: calls a -> b and a -> d
ResultsFan ==
    [Vulnerabilities |-> << Vuln(Sc, 3, "", <<"CVE-1">>),
                            Vuln(Sb, 1, "sb", <<"CVE-1">>) >>,
     PrivateAccess |-> << PrivAccess(Sb, 0, <<>>, <<>>),
                          PrivAccess(Sd, 0, <<"o2">>, <<>>) >>,
     Traces |-> Traces]

\* no findings at all
ResultsNone ==
    [Vulnerabilities |-> <<>>, PrivateAccess |-> <<>>, Traces |-> Traces]

ResultsInputs == {ResultsChain, ResultsFlows, ResultsFan, ResultsNone}

Keys == {"k1", "k2", "k3"}

Analyses == {"vuln", "privaccess"}

Depths == 0..MaxDepth

-----------------------------------------------------------------------------
(* The state machine.                                                      *)

NoOp == [name |-> "init", depth |-> 0, keepBacktrace |-> FALSE,
         self |-> FALSE, err |-> FALSE]

Snapshot == [cg |-> cg, g |-> g, heap |-> heap]

\* no single call is under examination
NoRun == [name |-> "none"]

Init ==
    /\ cg = NewCallGraph
    /\ g = NewCallGraph
    /\ heap = EmptyHeap
    /\ sv = [s |-> Nil, t |-> Nil, r |-> Nil]
    /\ op = NoOp
    /\ old = [cg |-> NewCallGraph, g |-> NewCallGraph, heap |-> EmptyHeap]
    /\ steps = 0
    /\ run = NoRun

\* g, err := results.ExtractGraph(analysis, progress)
ExtractOp(results, analysis) ==
    \E b \in {ExtractGraph(results, analysis, heap)} :
        /\ ~b.div /\ ~b.heap.panic
        /\ g' = b.graph
        /\ heap' = b.heap
        /\ op' = [NoOp EXCEPT !.name = "ExtractGraph", !.err = b.err]
        /\ old' = Snapshot
        /\ steps' = steps + 1
        /\ UNCHANGED <<cg, sv, run>>

\* cg.Union(g)
UnionOp ==
    \E r \in {Union(cg, heap, g)} :
        /\ ~r.heap.panic
        /\ cg' = r.graph
        /\ heap' = r.heap
        /\ op' = [NoOp EXCEPT !.name = "Union"]
        /\ old' = Snapshot
        /\ steps' = steps + 1
        /\ UNCHANGED <<g, sv, run>>

\* cg.AddIntersecting(g, depth)
AddIntersectingOp(depth) ==
    \E r \in {AddIntersecting(cg, heap, g, depth)} :
        /\ ~r.heap.panic
        /\ cg' = r.graph
        /\ heap' = r.heap
        /\ op' = [NoOp EXCEPT !.name = "AddIntersecting", !.depth = depth]
        /\ old' = Snapshot
        /\ steps' = steps + 1
        /\ UNCHANGED <<g, sv, run>>

\* cg, err = cg.Intersect(g, depth, keepBacktrace), or cg.Intersect(cg, ...)
IntersectOp(depth, keepBacktrace, self) ==
    \E r \in {Intersect(cg, heap, IF self THEN cg ELSE g, depth, keepBacktrace)} :
        /\ ~r.div /\ ~r.heap.panic
        /\ cg' = r.graph
        /\ heap' = r.heap
        /\ op' = [NoOp EXCEPT !.name = "Intersect", !.depth = depth,
                              !.keepBacktrace = keepBacktrace, !.self = self]
        /\ old' = Snapshot
        /\ steps' = steps + 1
        /\ UNCHANGED <<g, sv, run>>

\* cg = cg.Simplified()
SimplifiedOp ==
    \E r \in {Simplified(cg, heap)} :
        /\ ~r.div /\ ~r.heap.panic
        /\ cg' = r.graph
        /\ heap' = r.heap
        /\ op' = [NoOp EXCEPT !.name = "Simplified"]
        /\ old' = Snapshot
        /\ steps' = steps + 1
        /\ UNCHANGED <<g, sv, run>>

Extracting ==
    /\ steps < MaxSteps
    /\ \E results \in ResultsInputs, analysis \in Analyses :
          ExtractOp(results, analysis)

Uniting == steps < MaxSteps /\ UnionOp

Simplifying == steps < MaxSteps /\ SimplifiedOp

Intersecting ==
    /\ steps < MaxSteps
    /\ \E depth \in Depths, kb \in BOOLEAN, self \in BOOLEAN :
          IntersectOp(depth, kb, self)

AddingIntersecting ==
    /\ steps < MaxSteps
    /\ \E depth \in Depths : AddIntersectingOp(depth)

\* builders and Union
NextBuild == Extracting \/ Uniting

SpecBuild == Init /\ [][NextBuild]_vars

\* builders, Union and Simplified
NextSimp == Extracting \/ Uniting \/ Simplifying

SpecSimp == Init /\ [][NextSimp]_vars

\* every combining operation
Next == Extracting \/ Uniting \/ Simplifying \/ Intersecting
        \/ AddingIntersecting

Spec == Init /\ [][Next]_vars

\* builders, Union and Simplified over the private-access findings, deeper
ExtractingPriv ==
    /\ steps < MaxWeightSteps
    /\ \E results \in ResultsInputs : ExtractOp(results, "privaccess")

UnitingDeep == steps < MaxWeightSteps /\ UnionOp

SimplifyingDeep == steps < MaxWeightSteps /\ SimplifiedOp

NextWeights == ExtractingPriv \/ UnitingDeep \/ SimplifyingDeep

SpecWeights == Init /\ [][NextWeights]_vars

-----------------------------------------------------------------------------
(* The string set on its own: two sets s and t, and the result r.          *)

InitSet ==
    /\ cg = NewCallGraph
    /\ g = NewCallGraph
    /\ \E S \in SUBSET Keys, T \in SUBSET Keys :
          heap = [cells |-> <<S, T>>, panic |-> FALSE]
    /\ sv = [s |-> 1, t |-> 2, r |-> Nil]
    /\ op = NoOp
    /\ old = [cg |-> NewCallGraph, g |-> NewCallGraph, heap |-> heap]
    /\ steps = 0
    /\ run = NoRun

\* r := s.Union(t)
SetUnionOp ==
    \E u \in {strsetUnion(heap, sv.s, sv.t)} :
        /\ steps < MaxSetSteps
        /\ heap' = u.heap
        /\ sv' = [sv EXCEPT !.r = u.ref]
        /\ op' = [NoOp EXCEPT !.name = "strset.Union"]
        /\ old' = Snapshot
        /\ steps' = steps + 1
        /\ UNCHANGED <<cg, g, run>>

\* r := s.Intersection(t)
SetIntersectionOp ==
    \E u \in {strsetIntersection(heap, sv.s, sv.t)} :
        /\ steps < MaxSetSteps
        /\ heap' = u.heap
        /\ sv' = [sv EXCEPT !.r = u.ref]
        /\ op' = [NoOp EXCEPT !.name = "strset.Intersection"]
        /\ old' = Snapshot
        /\ steps' = steps + 1
        /\ UNCHANGED <<cg, g, run>>

\* t.Add(key)
SetAddOp ==
    /\ steps < MaxSetSteps
    /\ \E key \in Keys : heap' = strsetAdd(heap, sv.t, key)
    /\ op' = [NoOp EXCEPT !.name = "strset.Add"]
    /\ old' = Snapshot
    /\ steps' = steps + 1
    /\ UNCHANGED <<cg, g, sv, run>>

\* s.Remove(key)
SetRemoveOp ==
    /\ steps < MaxSetSteps
    /\ \E key \in Keys : heap' = strsetRemove(heap, sv.s, key)
    /\ op' = [NoOp EXCEPT !.name = "strset.Remove"]
    /\ old' = Snapshot
    /\ steps' = steps + 1
    /\ UNCHANGED <<cg, g, sv, run>>

NextSet == SetUnionOp \/ SetIntersectionOp \/ SetAddOp \/ SetRemoveOp

SpecSet == InitSet /\ [][NextSet]_vars

-----------------------------------------------------------------------------
(* Observations of a graph used by the properties.                         *)

Edges(G) == (DOMAIN G.calls) \cup (DOMAIN G.flows)

\* what a full scan of the edge maps computes
ScannedRoots(G) == {n \in DOMAIN G.nodes : \A e \in Edges(G) : e.Callee # n}
ScannedLeaves(G) == {n \in DOMAIN G.nodes : \A e \in Edges(G) : e.Caller # n}

RootsLeavesOk(G) ==
    /\ G.roots = ScannedRoots(G)
    /\ G.leaves = ScannedLeaves(G)

CveOf(G, h, n) == Elems(h, G.nodes[n].CVE)
OwnersOf(G, h, n) == Elems(h, G.nodes[n].Owners)
TagsOf(G, h, n) == Elems(h, G.nodes[n].Tags)

\* everything a reader of the graph can see, with the sets read through h
View(G, h) ==
    [nodes |-> [n \in DOMAIN G.nodes |->
                  [node |-> [G.nodes[n] EXCEPT !.CVE = 0, !.Owners = 0,
                                               !.Tags = 0],
                   cve |-> CveOf(G, h, n),
                   owners |-> OwnersOf(G, h, n),
                   tags |-> TagsOf(G, h, n)]],
     roots |-> G.roots, leaves |-> G.leaves,
     calls |-> G.calls, flows |-> G.flows]

\* nodes, edges, weights, roots and leaves
SameGraph(G1, G2) ==
    /\ DOMAIN G1.nodes = DOMAIN G2.nodes
    /\ G1.calls = G2.calls
    /\ G1.flows = G2.flows
    /\ G1.roots = G2.roots
    /\ G1.leaves = G2.leaves

Sum(m1, m2, c) == MapGet(m1, c, 0) + MapGet(m2, c, 0)

\* nodes reachable from the recorded roots along edges of the call map
RECURSIVE CallClosure(_, _)
CallClosure(G, seen) ==
    LET more == {c.Callee : c \in {e \in DOMAIN G.calls : e.Caller \in seen}}
    IN  IF more \subseteq seen THEN seen ELSE CallClosure(G, seen \cup more)

CallReachable(G) == CallClosure(G, G.roots \cap DOMAIN G.nodes)

-----------------------------------------------------------------------------
(* C1: in every graph returned by VulnGraph or PrivAccessGraph, and in     *)
(* every graph obtained from them by Union, the roots are exactly the      *)
(* nodes that no call or flow edge enters and the leaves exactly the nodes *)
(* that no call or flow edge leaves.                                       *)
C1_RootsLeavesMatchScan == RootsLeavesOk(cg) /\ RootsLeavesOk(g)

\* a Union that took root status away from a node and left roots and leaves
C1_Witness ==
    /\ op.name = "Union"
    /\ old.cg.roots \ cg.roots # {}
    /\ cg.roots # {}
    /\ cg.leaves # {}
    /\ DOMAIN cg.flows # {}

(* C2: after cg.Union(g) the node set is the union of both node sets, a    *)
(* node of both carries the union of the CVE and owner sets, every call    *)
(* and flow edge weighs w1 + w2; Union with an empty graph changes         *)
(* nothing, and g.Union(cg) has the same nodes, edges and weights.         *)
C2_UnionAddsUp ==
    op.name = "Union" =>
      LET A == old.cg
          B == old.g
          h0 == old.heap
          swapped == Union(B, h0, A).graph
      IN  /\ DOMAIN cg.nodes = (DOMAIN A.nodes) \cup (DOMAIN B.nodes)
          /\ \A n \in (DOMAIN A.nodes) \cap (DOMAIN B.nodes) :
                /\ CveOf(cg, heap, n) = CveOf(A, h0, n) \cup CveOf(B, h0, n)
                /\ OwnersOf(cg, heap, n)
                     = OwnersOf(A, h0, n) \cup OwnersOf(B, h0, n)
          /\ DOMAIN cg.calls = (DOMAIN A.calls) \cup (DOMAIN B.calls)
          /\ \A c \in DOMAIN cg.calls : cg.calls[c] = Sum(A.calls, B.calls, c)
          /\ DOMAIN cg.flows = (DOMAIN A.flows) \cup (DOMAIN B.flows)
          /\ \A c \in DOMAIN cg.flows : cg.flows[c] = Sum(A.flows, B.flows, c)
          /\ (DOMAIN B.nodes = {} => View(cg, heap) = View(A, h0))
          /\ DOMAIN swapped.nodes = DOMAIN cg.nodes
          /\ swapped.calls = cg.calls
          /\ swapped.flows = cg.flows

\* a Union of graphs that share an edge and a node with different CVE sets
C2_Witness ==
    /\ op.name = "Union"
    /\ \E c \in (DOMAIN old.cg.calls) \cap (DOMAIN old.g.calls) :
          cg.calls[c] >= 3
    /\ \E n \in (DOMAIN old.cg.nodes) \cap (DOMAIN old.g.nodes) :
          /\ CveOf(old.cg, old.heap, n) # {}
          /\ CveOf(old.g, old.heap, n) # {}
          /\ CveOf(old.cg, old.heap, n) # CveOf(old.g, old.heap, n)

(* C3: Simplified is idempotent: simplifying the graph that Simplified     *)
(* returned gives the same nodes, call edges, flow edges, weights, roots   *)
(* and leaves.                                                             *)
C3_SimplifiedIdempotent ==
    op.name = "Simplified" =>
      LET again == Simplified(cg, heap)
      IN  ~again.div => SameGraph(again.graph, cg)

(* C4: after any sequence of the graph operations every node's CallsIn,    *)
(* CallsOut, FlowsIn and FlowsOut hold precisely the edges of the call     *)
(* map, resp. flow map, that have the node as callee, resp. caller.        *)
ListsMatchEdges(G) ==
    /\ \A n \in DOMAIN G.nodes :
          /\ G.nodes[n].CallsIn = {c \in DOMAIN G.calls : c.Callee = n}
          /\ G.nodes[n].CallsOut = {c \in DOMAIN G.calls : c.Caller = n}
          /\ G.nodes[n].FlowsIn = {c \in DOMAIN G.flows : c.Callee = n}
          /\ G.nodes[n].FlowsOut = {c \in DOMAIN G.flows : c.Caller = n}
    /\ \A e \in Edges(G) : e.Caller \in DOMAIN G.nodes
                           /\ e.Callee \in DOMAIN G.nodes

C4_ListsMatchEdges == ListsMatchEdges(cg)

(* C5: in every graph reachable by the graph operations every edge of the  *)
(* call map and of the flow map has weight >= 1.                           *)
C5_WeightsPositive ==
    /\ \A c \in DOMAIN cg.calls : cg.calls[c] >= 1
    /\ \A c \in DOMAIN cg.flows : cg.flows[c] >= 1

(* C6: for a chain root -> x -> y -> leaf in which x and y have exactly    *)
(* one caller, exactly one callee and no CVE, Simplified returns a graph   *)
(* whose only nodes are root and leaf and whose only call edge is          *)
(* root -> leaf, weighing the sum of the three collapsed edges.            *)
IsChain(G, h, r, x, y, l) ==
    /\ Cardinality({r, x, y, l}) = 4
    /\ DOMAIN G.nodes = {r, x, y, l}
    /\ DOMAIN G.flows = {}
    /\ Cardinality(DOMAIN G.calls) = 3
    /\ {<<c.Caller, c.Callee>> : c \in DOMAIN G.calls}
          = {<<r, x>>, <<x, y>>, <<y, l>>}
    /\ G.roots = {r}
    /\ CveOf(G, h, x) = {}
    /\ CveOf(G, h, y) = {}

TotalWeight(G) ==
    LET RECURSIVE Total(_)
        Total(S) == IF S = {} THEN 0
                    ELSE LET c == CHOOSE x \in S : TRUE
                         IN  G.calls[c] + Total(S \ {c})
    IN  Total(DOMAIN G.calls)

C6_ChainCollapses ==
    op.name = "Simplified" =>
      \A r, x, y, l \in DOMAIN old.cg.nodes :
         IsChain(old.cg, old.heap, r, x, y, l) =>
            /\ DOMAIN cg.nodes = {r, l}
            /\ {<<c.Caller, c.Callee>> : c \in DOMAIN cg.calls} = {<<r, l>>}
            /\ Cardinality(DOMAIN cg.calls) = 1
            /\ TotalWeight(cg) = TotalWeight(old.cg)

(* C7: Simplified keeps every CVE-tagged node that is reachable from a     *)
(* recorded root along call edges, with its CVE set intact, also when the  *)
(* node has exactly one caller and one callee.                             *)
C7_CveNodesKept ==
    op.name = "Simplified" =>
      \A n \in CallReachable(old.cg) :
         CveOf(old.cg, old.heap, n) # {} =>
            /\ n \in DOMAIN cg.nodes
            /\ CveOf(cg, heap, n) = CveOf(old.cg, old.heap, n)

\* a CVE-tagged node in the middle of a chain went through Simplified
C7_Witness ==
    /\ op.name = "Simplified"
    /\ \E n \in CallReachable(old.cg) :
          /\ CveOf(old.cg, old.heap, n) # {}
          /\ Cardinality(old.cg.nodes[n].CallsIn) = 1
          /\ Cardinality(old.cg.nodes[n].CallsOut) = 1
          /\ old.cg.nodes[n].FlowsIn = {}
          /\ old.cg.nodes[n].FlowsOut = {}
          /\ n \in DOMAIN cg.nodes

(* C8: cg.Intersect(cg, depth, false) returns a graph whose node set is    *)
(* the union over the leaves of cg of CollectNodes(leaf, inputs, depth).   *)
C8_SelfIntersectNodes ==
    (op.name = "Intersect" /\ op.self /\ ~op.keepBacktrace) =>
       DOMAIN cg.nodes = LeafAncestors(old.cg, op.depth)

(* C9: a combining operation does not change a graph it only reads:        *)
(* Union and AddIntersecting leave their argument as it was, Intersect     *)
(* leaves both operands as they were - nodes, CVE/owner/tag sets, edge     *)
(* lists, roots, leaves and weights.                                       *)
C9_OperandsUnchanged ==
    /\ op.name \in {"Union", "AddIntersecting", "Intersect"} =>
          View(g, heap) = View(old.g, old.heap)
    /\ op.name = "Intersect" =>
          View(old.cg, heap) = View(old.cg, old.heap)

(* C10: r := s.Union(t) and r := s.Intersection(t) leave s and t with the  *)
(* elements they had, and r holds the union, resp. the intersection.       *)
C10_SetOperandsUnchanged ==
    /\ op.name \in {"strset.Union", "strset.Intersection"} =>
          /\ Elems(heap, sv.s) = Elems(old.heap, sv.s)
          /\ Elems(heap, sv.t) = Elems(old.heap, sv.t)
    /\ op.name = "strset.Union" =>
          Elems(heap, sv.r) = Elems(old.heap, sv.s) \cup Elems(old.heap, sv.t)
    /\ op.name = "strset.Intersection" =>
          Elems(heap, sv.r) = Elems(old.heap, sv.s) \cap Elems(old.heap, sv.t)

-----------------------------------------------------------------------------
(* Bounded collection.                                                     *)

\* a name that no site of the inputs produces
Stranger == NodeName("zz", "")

Selectors == {"AllInputs", "AllOutputs", "Callers", "Callees"}

\* the names at most d selector hops away from the names in from
RECURSIVE Reach(_, _, _, _)
Reach(G, from, selector, d) ==
    IF d = 0 THEN from
    ELSE Reach(G,
               from \cup UNION {Select(selector, MapGet(G.nodes, n, ZeroNode)) :
                                n \in from},
               selector, d - 1)

\* C11: for every start (a node of the graph or not), selector and depth
\* d >= 0, CollectNodes(start, selector, d) returns exactly the names
\* reachable from start by at most d selector hops, start included; with
\* d = 0 that is {start}.
C11_CollectWithinDepth ==
    \A start \in DOMAIN cg.nodes \cup {Stranger} :
        \A selector \in Selectors :
            \A d \in 0..MaxDepth :
                /\ Collect(cg, start, selector, d) =
                       [nodes |-> Reach(cg, {start}, selector, d),
                        div |-> FALSE]
                /\ Collect(cg, start, selector, 0).nodes = {start}

\* a graph where the second hop of a collection reaches a name that the
\* first does not
C11_Witness ==
    /\ Stranger \notin DOMAIN cg.nodes
    /\ \E start \in DOMAIN cg.nodes :
           \E selector \in Selectors :
               /\ Reach(cg, {start}, selector, 1) # {start}
               /\ Reach(cg, {start}, selector, 2) #
                      Reach(cg, {start}, selector, 1)
               /\ Collect(cg, start, selector, 2).nodes =
                      Reach(cg, {start}, selector, 2)

-----------------------------------------------------------------------------
(* Termination of the unbounded traversals.                                *)

\* C12: on every graph built by VulnGraph or PrivAccessGraph and on every
\* union of such graphs, CollectNodes(leaf, inputs, -1) runs to completion
\* for every leaf, and so does Simplified().
C12_TraversalsTerminate ==
    /\ \A leaf \in cg.leaves :
           ~Collect(cg, leaf, "AllInputs", -1).div
    /\ ~Simplified(cg, heap).div

-----------------------------------------------------------------------------
(* CallTrace.Foreach on its own: one call on a list of traces.             *)

SeqsUpTo(S, n) == UNION {[1..k -> S] : k \in 0..n}

\* call sites of the four kinds of location: nothing known, only the line,
\* only the file, both
SiteInputs ==
    {[Function |-> "p", Location |-> [File |-> "", Line |-> 0, Library |-> ""]],
     [Function |-> "q", Location |-> [File |-> "", Line |-> 5, Library |-> ""]],
     [Function |-> "r", Location |-> [File |-> "f.c", Line |-> 0,
                                     Library |-> ""]],
     [Function |-> "s", Location |-> [File |-> "f.c", Line |-> 7,
                                     Library |-> ""]]}

\* Next: no continuation, every index of a full list, one index past it
NextInputs == -1..MaxTraces

\* the trace the call starts from
FirstTraces ==
    {[CallSites |-> cs, Next |-> n] :
        cs \in SeqsUpTo(SiteInputs, MaxSites), n \in NextInputs}

\* the traces that continuations lead to
LaterTraces ==
    {[CallSites |-> cs, Next |-> n] :
        cs \in {<<>>, <<Sa>>}, n \in NextInputs}

TraceLists ==
    {<<t>> \o rest : t \in FirstTraces,
                     rest \in SeqsUpTo(LaterTraces, MaxTraces - 1)}

\* the state before the one call, with its arguments in run
InitRun(r) ==
    /\ cg = NewCallGraph
    /\ g = NewCallGraph
    /\ heap = EmptyHeap
    /\ sv = [s |-> Nil, t |-> Nil, r |-> Nil]
    /\ op = NoOp
    /\ old = [cg |-> NewCallGraph, g |-> NewCallGraph, heap |-> EmptyHeap]
    /\ steps = 0
    /\ run = r

InitTrace ==
    \E traces \in TraceLists :
        InitRun([name |-> "input", traces |-> traces,
                 out |-> [sites |-> <<>>, err |-> FALSE, div |-> FALSE]])

\* err := traces[0].Foreach(traces, fn), fn recording the sites it is given
ForeachOp ==
    /\ run.name = "input"
    /\ run' = [run EXCEPT !.name = "Foreach",
                          !.out = Foreach(run.traces[1], run.traces,
                                          Len(run.traces))]
    /\ op' = [NoOp EXCEPT !.name = "Foreach"]
    /\ steps' = steps + 1
    /\ UNCHANGED <<cg, g, heap, sv, old>>

SpecTrace == InitTrace /\ [][ForeachOp]_vars

\* a location about which something is known
Known(loc) == loc.File # "" \/ loc.Line # 0

\* C13: Foreach on a trace with Next == -1 hands the callback exactly that
\* trace's call sites in their stored order, leaving out exactly the
\* entries with an empty file and a zero line.
C13_ForeachYieldsKnownSites ==
    (run.name = "Foreach" /\ run.traces[1].Next = -1) =>
        run.out.sites = SelectSeq(run.traces[1].CallSites,
                                  LAMBDA cs : Known(cs.Location))

\* the Next references followed from the first trace leave the list
RECURSIVE ChainLeavesList(_, _, _)
ChainLeavesList(traces, i, fuel) ==
    IF i < 0 \/ fuel = 0 THEN FALSE
    ELSE IF i >= Len(traces) THEN TRUE
    ELSE ChainLeavesList(traces, traces[i + 1].Next, fuel - 1)

\* C14: Foreach returns the out-of-range error whenever the chain of Next
\* references followed from the starting trace reaches an index >= the
\* number of traces, in the starting trace or after any number of
\* continuations.
C14_ForeachReportsOutOfRange ==
    (run.name = "Foreach" /\ ChainLeavesList(run.traces, 0, Len(run.traces) + 1))
        => run.out.err

-----------------------------------------------------------------------------
(* The graph builders on their own: one call on a list of findings.        *)

\* 0: a            1: b, a          2: c, b, a
\* 3: c, b, c, b, a (the call of c by b occurs twice)
\* 4: a site without location, then b
\* 5: a, then a reference outside the list
\* 6: b, then trace 5          7: c, then itself
FindingTraces ==
    << [CallSites |-> <<Sa>>, Next |-> -1],
       [CallSites |-> <<Sb>>, Next |-> 0],
       [CallSites |-> <<Sc>>, Next |-> 1],
       [CallSites |-> <<Sc, Sb, Sc, Sb>>, Next |-> 0],
       [CallSites |-> <<UnknownSite("x"), Sb>>, Next |-> -1],
       [CallSites |-> <<Sa>>, Next |-> 9],
       [CallSites |-> <<Sb>>, Next |-> 5],
       [CallSites |-> <<Sc>>, Next |-> 7] >>

\* every index of FindingTraces and one index past the list
TraceRefs == 0..Len(FindingTraces)

VulnInputs ==
    {Vuln(cs, t, tag[1], tag[2]) :
        cs \in {Sd, Sc}, t \in TraceRefs,
        tag \in {<<"", <<>>>>, <<"sb", <<"CVE-1", "CVE-2">>>>}}

InitFindings == InitRun([name |-> "findings", findings |-> <<>>])

\* one more finding in results.Vulnerabilities
AddingVuln ==
    /\ op.name = "init"
    /\ Len(run.findings) < MaxFindings
    /\ \E v \in VulnInputs : run' = [run EXCEPT !.findings = Append(@, v)]
    /\ UNCHANGED <<cg, g, heap, sv, op, old, steps>>

\* g, err := VulnGraph(results, progress)
BuildingVuln ==
    /\ op.name = "init"
    /\ ExtractOp([Vulnerabilities |-> run.findings, PrivateAccess |-> <<>>,
                  Traces |-> FindingTraces], "vuln")

NextVuln == AddingVuln \/ BuildingVuln

SpecVuln == InitFindings /\ [][NextVuln]_vars

\* the call sites that resolving trace number t hands to the builder
Resolved(t) ==
    Foreach(FindingTraces[t + 1], FindingTraces, Len(FindingTraces)).sites

Functions(sites) == {sites[i].Function : i \in 1..Len(sites)}

\* the edge that the i-th resolved site of a finding stands for
ChainEdge(top, sites, i, sandbox) ==
    [Caller |-> NodeName(sites[i].Function, sandbox),
     Callee |-> NodeName(IF i = 1 THEN top.Function
                         ELSE sites[i - 1].Function, sandbox),
     CallSite |-> sites[i].Location, Sandbox |-> sandbox]

ChainEdges(top, sites, sandbox) ==
    {ChainEdge(top, sites, i, sandbox) : i \in 1..Len(sites)}

\* g is the graph returned for the findings in run
Built == op.name = "ExtractGraph" /\ ~op.err

\* the finding's function and the functions of its resolved sites are
\* pairwise distinct
DistinctSites(top, sites) ==
    Cardinality(Functions(sites) \cup {top.Function}) = Len(sites) + 1

\* the graph is the chain of one finding
IsFindingChain(v, sites) ==
    /\ DOMAIN g.nodes =
          {NodeName(f, v.Sandbox) : f \in Functions(sites) \cup
                                          {v.CallSite.Function}}
    /\ Cardinality(DOMAIN g.nodes) = Len(sites) + 1
    /\ DOMAIN g.calls = ChainEdges(v.CallSite, sites, v.Sandbox)
    /\ Cardinality(DOMAIN g.calls) = Len(sites)
    /\ \A e \in DOMAIN g.calls : g.calls[e] = 1
    /\ DOMAIN g.flows = {}
    /\ \A n \in DOMAIN g.nodes :
          /\ g.nodes[n].Sandbox = v.Sandbox
          /\ g.nodes[n].Name = n
          /\ CveOf(g, heap, n) =
                IF n = NodeName(v.CallSite.Function, v.Sandbox)
                THEN Range(v.CVE) ELSE {}
    /\ g.leaves = {NodeName(v.CallSite.Function, v.Sandbox)}
    /\ g.roots = {NodeName(IF sites = <<>> THEN v.CallSite.Function
                           ELSE sites[Len(sites)].Function, v.Sandbox)}

\* C15: for a single vulnerability finding whose resolved trace has k call
\* sites with functions pairwise distinct and distinct from the finding's
\* own, VulnGraph returns k+1 nodes and k call edges of weight 1 forming
\* one chain from the last site to the finding; every node has the
\* finding's sandbox, only the finding's node has its CVEs, that node is
\* the only leaf and the last resolved site the only root.
C15_SingleFindingChain ==
    (Built /\ Len(run.findings) = 1) =>
        (DistinctSites(run.findings[1].CallSite,
                       Resolved(run.findings[1].Trace))
            => IsFindingChain(run.findings[1],
                              Resolved(run.findings[1].Trace)))

\* the graph of one finding in a sandbox with CVEs and three sites
C15_Witness ==
    /\ Built
    /\ Len(run.findings) = 1
    /\ run.findings[1].Sandbox = "sb"
    /\ run.findings[1].CVE # <<>>
    /\ Len(Resolved(run.findings[1].Trace)) = 3
    /\ DistinctSites(run.findings[1].CallSite,
                     Resolved(run.findings[1].Trace))
    /\ IsFindingChain(run.findings[1], Resolved(run.findings[1].Trace))

\* the findings of the list that produced the edge e
Producers(e) ==
    {i \in 1..Len(run.findings) :
        e \in ChainEdges(run.findings[i].CallSite,
                         Resolved(run.findings[i].Trace),
                         run.findings[i].Sandbox)}

\* C16: in the graph returned by VulnGraph the weight of each call edge is
\* the number of findings that produced that exact edge, a single finding
\* counting once.
C16_WeightCountsFindings ==
    Built => \A e \in DOMAIN g.calls : g.calls[e] = Cardinality(Producers(e))

-----------------------------------------------------------------------------
(* PrivAccessGraph on its own.                                             *)

AccessInputs ==
    {PrivAccess(top[1], t, top[2], sources) :
        top \in {<<Sd, <<"o1", "o2">>>>, <<Sd, <<"o2">>>>, <<Sc, <<>>>>},
        t \in {0, 2, 5},
        sources \in {<<>>, <<DataSource(1)>>,
                     <<DataSource(0), DataSource(4)>>, <<DataSource(5)>>}}

\* one more finding in results.PrivateAccess
AddingAccess ==
    /\ op.name = "init"
    /\ Len(run.findings) < MaxFindings
    /\ \E a \in AccessInputs : run' = [run EXCEPT !.findings = Append(@, a)]
    /\ UNCHANGED <<cg, g, heap, sv, op, old, steps>>

\* g, err := PrivAccessGraph(results, progress)
BuildingPriv ==
    /\ op.name = "init"
    /\ ExtractOp([Vulnerabilities |-> <<>>, PrivateAccess |-> run.findings,
                  Traces |-> FindingTraces], "privaccess")

NextPriv == AddingAccess \/ BuildingPriv

SpecPriv == InitFindings /\ [][NextPriv]_vars

TopName(a) == NodeName(a.CallSite.Function, "")

\* the call edges that the findings' own traces stand for
OwnTraceEdges ==
    UNION {ChainEdges(run.findings[i].CallSite,
                      Resolved(run.findings[i].Trace), "") :
              i \in 1..Len(run.findings)}

\* (finding, source) index pairs
SourcePairs ==
    UNION {{<<i, j>> : j \in 1..Len(run.findings[i].Sources)} :
              i \in 1..Len(run.findings)}

\* the edges that the DataSource traces stand for, each chain ending at the
\* top node of its finding
SourceEdges ==
    UNION {ChainEdges(run.findings[p[1]].CallSite,
                      Resolved(run.findings[p[1]].Sources[p[2]].Trace), "") :
              p \in SourcePairs}

EdgeNames(edges) == {e.Caller : e \in edges} \cup {e.Callee : e \in edges}

TopNames == {TopName(run.findings[i]) : i \in 1..Len(run.findings)}

\* C17: in the graph returned by PrivAccessGraph the findings' own traces
\* contribute exactly the call edges and the DataSource traces exactly the
\* flow edges, each source's resolved sites forming a chain in the flow map
\* that ends at the finding's top node and adding nothing to the call map;
\* every node has an empty sandbox, each top node carries its finding's
\* data owners, and the nodes of both kinds of chain are in the one node
\* map.
C17_CallsAndFlowsApart ==
    Built =>
        /\ DOMAIN g.calls = OwnTraceEdges
        /\ DOMAIN g.flows = SourceEdges
        /\ DOMAIN g.nodes =
              TopNames \cup EdgeNames(OwnTraceEdges) \cup EdgeNames(SourceEdges)
        /\ \A n \in DOMAIN g.nodes :
              /\ g.nodes[n].Sandbox = ""
              /\ g.nodes[n].Name = n
              /\ OwnersOf(g, heap, n) =
                    UNION {Range(run.findings[i].Sandboxes) :
                              i \in {k \in 1..Len(run.findings) :
                                        TopName(run.findings[k]) = n}}

\* a graph built from a finding with owners, a trace of its own and a data
\* source whose trace has two sites, none of whose flow edges is a call
C17_Witness ==
    /\ Built
    /\ \E p \in SourcePairs :
          /\ Len(Resolved(run.findings[p[1]].Sources[p[2]].Trace)) = 2
          /\ Resolved(run.findings[p[1]].Trace) # <<>>
          /\ run.findings[p[1]].Sandboxes # <<>>
          /\ OwnersOf(g, heap, TopName(run.findings[p[1]])) # {}
    /\ SourceEdges \cap OwnTraceEdges = {}
    /\ DOMAIN g.flows = SourceEdges
    /\ DOMAIN g.calls = OwnTraceEdges

-----------------------------------------------------------------------------
(* graphing.go: Save and LoadGraph.                                        *)

\* what the encoder writes for a strset field: its keys, or nothing for nil
Stored(h, ref) == [nil |-> ref = Nil, elems |-> Elems(h, ref)]

\* CallGraph.Save: the values handed to the encoder, in order.  The copies
\* of the nodes lose CallsIn and CallsOut and nothing else; cg.flows is
\* not encoded.
Save(G, h) ==
    << [n \in DOMAIN G.nodes |->
           [G.nodes[n] EXCEPT !.CallsOut = {}, !.CallsIn = {},
                              !.CVE = Stored(h, @),
                              !.Owners = Stored(h, @),
                              !.Tags = Stored(h, @)]],
       G.roots, G.leaves, G.calls >>

\* decoding a strset field allocates a map unless nothing was written
Restore(h, stored) ==
    IF stored.nil THEN [heap |-> h, ref |-> Nil]
    ELSE NewSet(h, stored.elems)

\* decoding the node map
RECURSIVE DecodeNodes(_, _, _, _)
DecodeNodes(nodes, h, section, todo) ==
    IF todo = {} THEN [nodes |-> nodes, heap |-> h]
    ELSE Let(CHOOSE x \in todo : TRUE, LAMBDA n :
         Let(Restore(h, section[n].CVE), LAMBDA a :
         Let(Restore(a.heap, section[n].Owners), LAMBDA b :
         Let(Restore(b.heap, section[n].Tags), LAMBDA c :
             DecodeNodes(MapPut(nodes, n,
                                [section[n] EXCEPT !.CVE = a.ref,
                                                   !.Owners = b.ref,
                                                   !.Tags = c.ref]),
                         c.heap, section, todo \ {n})))))

\* the loop of LoadGraph over cg.calls
RECURSIVE Reconstitute(_, _)
Reconstitute(G, todo) ==
    IF todo = {} THEN G
    ELSE Let(CHOOSE x \in todo : TRUE, LAMBDA call :
         Let(MapPut(G.nodes, call.Callee,
                    [MapGet(G.nodes, call.Callee, ZeroNode) EXCEPT
                        !.CallsIn = @ \cup {call}]), LAMBDA withCallee :
         Let(MapPut(withCallee, call.Caller,
                    [MapGet(withCallee, call.Caller, ZeroNode) EXCEPT
                        !.CallsOut = @ \cup {call}]), LAMBDA withCaller :
             Reconstitute([G EXCEPT !.nodes = withCaller], todo \ {call}))))

\* LoadGraph on a file holding the given encoded values; a value that is
\* missing makes Decode fail, and the graph decoded so far is returned
\* with the error.  cg.flows is never decoded.
LoadGraph(file, h) ==
    IF Len(file) < 1
    THEN [graph |-> ZeroCallGraph, heap |-> h, err |-> TRUE]
    ELSE Let(DecodeNodes(EmptyMap, h, file[1], DOMAIN file[1]), LAMBDA d :
         Let([ZeroCallGraph EXCEPT !.nodes = d.nodes], LAMBDA g1 :
             IF Len(file) < 2
             THEN [graph |-> g1, heap |-> d.heap, err |-> TRUE]
             ELSE IF Len(file) < 3
             THEN [graph |-> [g1 EXCEPT !.roots = file[2]],
                   heap |-> d.heap, err |-> TRUE]
             ELSE IF Len(file) < 4
             THEN [graph |-> [g1 EXCEPT !.roots = file[2],
                                        !.leaves = file[3]],
                   heap |-> d.heap, err |-> TRUE]
             ELSE [graph |-> Reconstitute(
                                [g1 EXCEPT !.roots = file[2],
                                           !.leaves = file[3],
                                           !.calls = file[4]],
                                DOMAIN file[4]),
                   heap |-> d.heap, err |-> FALSE]))

\* cg.Save(f), then LoadGraph on the first k values of what was written
SaveLoadOp(k) ==
    \E ld \in {LoadGraph(SubSeq(Save(cg, heap), 1, k), heap)} :
        /\ run' = [name |-> "LoadGraph", complete |-> k = Len(Save(cg, heap)),
                   graph |-> ld.graph, err |-> ld.err]
        /\ heap' = ld.heap
        /\ op' = [NoOp EXCEPT !.name = "LoadGraph", !.err = ld.err]
        /\ old' = Snapshot
        /\ steps' = steps + 1
        /\ UNCHANGED <<cg, g, sv>>

\* a graph is built by the driver until the one call under examination
BuildingStored == run = NoRun /\ NextBuild

SavingLoading ==
    /\ run = NoRun
    /\ \E k \in 0..Len(Save(cg, heap)) : SaveLoadOp(k)

\* the graph is built, then saved and loaded once
NextStore == BuildingStored \/ SavingLoading

SpecStore == Init /\ [][NextStore]_vars

\* C18: Save followed by LoadGraph returns a graph with the nodes, roots,
\* leaves, call weights and flow weights of the saved graph, every node's
\* call and flow lists holding the edges of the maps.
C18_SaveLoadRoundTrip ==
    (run.name = "LoadGraph" /\ run.complete) =>
        /\ ~run.err
        /\ SameGraph(run.graph, cg)
        /\ \A n \in DOMAIN cg.nodes :
              /\ CveOf(run.graph, heap, n) = CveOf(cg, heap, n)
              /\ OwnersOf(run.graph, heap, n) = OwnersOf(cg, heap, n)
        /\ ListsMatchEdges(run.graph)

\* C19: an operation that returns an error returns the empty result with
\* it, and a result returned without an error is fully formed; here for
\* LoadGraph, whose file may end after any of the encoded values.
C19_NoPartialResultWithError ==
    run.name = "LoadGraph" =>
        /\ run.err => run.graph = ZeroCallGraph
        /\ ~run.err => run.complete

-----------------------------------------------------------------------------
(* analysis.go: ApplyAnalysis and Filter.                                  *)
(* A specification string is a sequence of items: each character is an    *)
(* item, except that a category name, which the code only ever looks up   *)
(* whole, is a single item.                                                *)

\* strings.Split(str, sep) for a one-item separator: always at least one
\* piece, an empty one where two separators meet or the string is empty
RECURSIVE Split(_, _, _, _)
Split(str, sep, i, piece) ==
    IF i > Len(str) THEN <<piece>>
    ELSE IF str[i] = sep THEN <<piece>> \o Split(str, sep, i + 1, <<>>)
    ELSE Split(str, sep, i + 1, Append(piece, str[i]))

\* graphExtractors: the registered name that the string spells, if any
Category(name) ==
    IF name = <<"vuln">> THEN "vuln"
    ELSE IF name = <<"privaccess">> THEN "privaccess"
    ELSE ""

\* the characters of the function and sandbox names of the inputs
Chars(str) ==
    IF str = "" THEN <<>>
    ELSE IF str = "sb" THEN <<"s", "b">>
    ELSE <<str>>

\* GraphNode.Name: Function + " : " + Sandbox
NameString(n) == Chars(n[1]) \o <<" ", ":", " ">> \o Chars(n[2])

\* regexp.Compile on a pattern of literal characters and parentheses: an
\* unmatched parenthesis is rejected
Compiles(pattern) == \A i \in 1..Len(pattern) : pattern[i] # "("

\* Regexp.MatchString for a pattern of literal characters: the pattern
\* occurs somewhere in the string
MatchString(pattern, str) ==
    \E i \in 1..(Len(str) + 1) :
        /\ i + Len(pattern) - 1 <= Len(str)
        /\ SubSeq(str, i, i + Len(pattern) - 1) = pattern

\* the outcome of a call that indexes an empty string
Crash(G, h) ==
    [graph |-> ZeroCallGraph, heap |-> h, acc |-> G, err |-> "",
     panic |-> TRUE, div |-> FALSE]

\* the outcome of a call that returns graph and err
Return(graph, h, acc, err, div) ==
    [graph |-> graph, heap |-> h, acc |-> acc, err |-> err,
     panic |-> FALSE, div |-> div]

\* cg.Ancestors(leaf, -1) and cg.Filter(keep): every ancestor of the kept
\* leaves, and the subgraph of cg over those nodes
FilterKept(G, h, leaves) ==
    Let(UNION {Collect(G, leaf, "AllInputs", -1).nodes : leaf \in leaves},
        LAMBDA keep :
    Let(CopyKept(NewCallGraph, h, G, keep), LAMBDA r :
        Return(r.graph, r.heap, G, "",
               \E leaf \in leaves : Collect(G, leaf, "AllInputs", -1).div)))

\* the loop of Filter with clauses that only ever add leaves
RECURSIVE FilterClausesAdding(_, _, _, _, _)
FilterClausesAdding(G, h, clauses, i, leaves) ==
    IF i > Len(clauses) THEN FilterKept(G, h, leaves)
    ELSE IF clauses[i] = <<"*">>
    THEN FilterClausesAdding(G, h, clauses, i + 1, leaves \cup G.leaves)
    ELSE IF clauses[i] = <<>> THEN Crash(G, h)
    ELSE IF clauses[i][1] \notin {"+", "-"}
    THEN Return(ZeroCallGraph, h, G, "unknown filter clause", FALSE)
    ELSE IF ~Compiles(Tail(clauses[i]))
    THEN Return(G, h, G, "regexp", FALSE)
    ELSE FilterClausesAdding(G, h, clauses, i + 1,
             IF clauses[i][1] = "+"
             THEN leaves \cup {leaf \in G.leaves :
                     MatchString(Tail(clauses[i]), NameString(leaf))}
             ELSE leaves)

\* the loop of Filter over the clauses, then the final selection
RECURSIVE FilterClauses(_, _, _, _, _)
FilterClauses(G, h, clauses, i, leaves) ==
    IF i > Len(clauses) THEN FilterKept(G, h, leaves)
    ELSE IF clauses[i] = <<"*">>
    THEN FilterClauses(G, h, clauses, i + 1, leaves \cup G.leaves)
    ELSE IF clauses[i] = <<>> THEN Crash(G, h)
    ELSE IF clauses[i][1] \notin {"+", "-"}
    THEN Return(ZeroCallGraph, h, G, "unknown filter clause", FALSE)
    ELSE IF ~Compiles(Tail(clauses[i]))
    THEN Return(G, h, G, "regexp", FALSE)
    ELSE Let({leaf \in G.leaves :
                 MatchString(Tail(clauses[i]), NameString(leaf))},
             LAMBDA matching :
             FilterClauses(G, h, clauses, i + 1,
                           IF clauses[i][1] = "+" THEN leaves \cup matching
                           ELSE leaves \ matching))

\* Filter(cg, spec)
Filter(G, h, spec) == FilterClauses(G, h, Split(spec, ":", 1, <<>>), 1, {})

\* the three Analysers of ApplyAnalysis applied to the extracted graph
Analyse(how, G, h, o, depth) ==
    IF how = "union"
    THEN Let(Union(G, h, o), LAMBDA r :
             Return(r.graph, r.heap, r.graph, "", FALSE))
    ELSE IF how = "intersect"
    THEN Let(Intersect(G, h, o, depth, TRUE), LAMBDA r :
             Return(r.graph, r.heap, G, "", r.div))
    ELSE Let(AddIntersecting(G, h, o, depth), LAMBDA r :
             Return(r.graph, r.heap, r.graph, "", FALSE))

extractAndCombine(graphname, results, G, h, how, depth) ==
    Let(ExtractGraph(results, Category(graphname), h), LAMBDA ex :
        IF ex.err \/ ex.div \/ ex.heap.panic
        THEN Return(ZeroCallGraph, ex.heap, G,
                    IF Category(graphname) = "" THEN "unknown analysis"
                    ELSE "trace ID out of range", ex.div)
        ELSE Analyse(how, G, ex.heap, ex.graph, depth))

\* ApplyAnalysis(spec, cg, results, depth, report)
ApplyAnalysis(spec, G, h, results, depth) ==
    IF spec = <<>> THEN Crash(G, h)
    ELSE IF spec[1] = "+"
    THEN extractAndCombine(Tail(spec), results, G, h, "union", depth)
    ELSE IF spec[1] = "^"
    THEN extractAndCombine(Tail(spec), results, G, h, "intersect", depth)
    ELSE IF spec[1] = "."
    THEN extractAndCombine(Tail(spec), results, G, h, "addintersecting",
                           depth)
    ELSE IF spec[1] = ":" THEN Filter(G, h, Tail(spec))
    ELSE extractAndCombine(spec, results, G, h, "union", depth)

\* well-formed and malformed specifications
SpecInputs ==
    { <<>>,
      <<"+", "vuln">>, <<"^", "vuln">>, <<".", "privaccess">>,
      <<"privaccess">>,
      <<"+", "foo">>, <<"^", "foo">>, <<"foo">>,
      <<":">>, <<":", "*">>, <<":", "+", "d">>,
      <<":", "*", ":", "-", "d">>,
      <<":", "*", ":", ":", "-", "x">>,
      <<":", "x">>, <<":", "*", ":", "*", "x">>,
      <<":", "*", ":", "+", "(">> }

\* out, err := ApplyAnalysis(spec, &cg, &results, depth, report)
ApplyAnalysisOp(spec, results, depth) ==
    \E r \in {ApplyAnalysis(spec, cg, heap, results, depth)} :
        /\ ~r.div /\ ~r.heap.panic
        /\ run' = [name |-> "ApplyAnalysis", spec |-> spec,
                   graph |-> r.graph, err |-> r.err, panic |-> r.panic]
        /\ cg' = r.acc
        /\ heap' = r.heap
        /\ op' = [NoOp EXCEPT !.name = "ApplyAnalysis", !.depth = depth,
                              !.err = r.err # ""]
        /\ old' = Snapshot
        /\ steps' = steps + 1
        /\ UNCHANGED <<g, sv>>

Applying ==
    /\ run = NoRun
    /\ \E spec \in SpecInputs, depth \in Depths :
          ApplyAnalysisOp(spec, ResultsFlows, depth)

\* an accumulator is built, then one analysis is applied to it
NextApply == BuildingStored \/ Applying

SpecApply == Init /\ [][NextApply]_vars

\* the specification names a category that has no extractor
UnknownCategory(spec) ==
    /\ spec # <<>>
    /\ spec[1] # ":"
    /\ (IF spec[1] \in {"+", "^", "."} THEN Tail(spec) ELSE spec)
          \notin {<<"vuln">>, <<"privaccess">>}

\* a filter clause that neither starts with + or - nor is exactly *
BadClause(clause) ==
    clause # <<"*">> /\ (clause = <<>> \/ clause[1] \notin {"+", "-"})

UnknownClause(spec) ==
    /\ spec # <<>>
    /\ spec[1] = ":"
    /\ \E clause \in Range(Split(Tail(spec), ":", 1, <<>>)) : BadClause(clause)

\* C20: ApplyAnalysis never crashes on a malformed specification: for a
\* category without extractor it returns the unknown-category error, no
\* graph, and leaves the accumulator as it was; for a filter with a clause
\* that neither starts with + or - nor is exactly * (an empty clause
\* included), and for the empty specification, it returns the
\* unknown-clause error.
C20_MalformedSpecIsAnError ==
    run.name = "ApplyAnalysis" =>
        /\ ~run.panic
        /\ UnknownCategory(run.spec) =>
              /\ run.err = "unknown analysis"
              /\ run.graph = ZeroCallGraph
              /\ cg = old.cg
        /\ (UnknownClause(run.spec) \/ run.spec = <<>>) =>
              /\ run.err = "unknown filter clause"
              /\ run.graph = ZeroCallGraph

-----------------------------------------------------------------------------
(* CallGraph.AddNode on its own: nodes of two names, with and without a    *)
(* library and a CVE, and the call between them.                           *)

\* node := newGraphNode(cs, ""); node.CVE = cves; cg.AddNode(node)
AddNodeOp(cs, cves) ==
    \E mk \in {newGraphNode(heap, cs, "")} :
    \E set \in {NewSet(mk.heap, cves)} :
    \E r \in {AddNode(cg, set.heap, [mk.node EXCEPT !.CVE = set.ref])} :
        /\ cg' = r.graph
        /\ heap' = r.heap
        /\ run' = [name |-> "AddNode",
                   node |-> [mk.node EXCEPT !.CVE = set.ref], cves |-> cves]
        /\ op' = [NoOp EXCEPT !.name = "AddNode"]
        /\ old' = Snapshot
        /\ steps' = steps + 1
        /\ UNCHANGED <<g, sv>>

AddingNode ==
    /\ steps < MaxNodeSteps
    /\ \E fn \in {"a", "b"}, lib \in {"", "l1", "l2"},
          cves \in {{}, {"CVE-1"}} :
          AddNodeOp([Function |-> fn,
                     Location |-> [File |-> "f.c", Line |-> 1,
                                   Library |-> lib]], cves)

\* cg.AddCall(newCall(a, b, cs, "")) between two nodes of the graph
AddingCall ==
    /\ steps < MaxNodeSteps
    /\ {NodeName("a", ""), NodeName("b", "")} \subseteq DOMAIN cg.nodes
    /\ cg' = AddCall(cg, newCall(cg.nodes[NodeName("a", "")],
                                 cg.nodes[NodeName("b", "")], Sa, ""))
    /\ run' = [name |-> "AddCall"]
    /\ op' = [NoOp EXCEPT !.name = "AddCall"]
    /\ old' = Snapshot
    /\ steps' = steps + 1
    /\ UNCHANGED <<g, heap, sv>>

SpecNode == Init /\ [][AddingNode \/ AddingCall]_vars

\* the node that AddNode was given has the name of a node of the graph
Readded == run.name = "AddNode" /\ run.node.Name \in DOMAIN old.cg.nodes

\* C22: when AddNode is given a node whose name the graph already has, the
\* stored node keeps the existing library unless that was empty, and its
\* call and flow lists and its CVE, owner and tag sets are the unions of
\* the existing and the new ones.
C22_ExistingValuesWin ==
    Readded =>
        /\ cg.nodes[run.node.Name].Library =
              IF old.cg.nodes[run.node.Name].Library # ""
              THEN old.cg.nodes[run.node.Name].Library
              ELSE run.node.Library
        /\ cg.nodes[run.node.Name].CallsIn =
              old.cg.nodes[run.node.Name].CallsIn \cup run.node.CallsIn
        /\ cg.nodes[run.node.Name].CallsOut =
              old.cg.nodes[run.node.Name].CallsOut \cup run.node.CallsOut
        /\ cg.nodes[run.node.Name].FlowsIn =
              old.cg.nodes[run.node.Name].FlowsIn \cup run.node.FlowsIn
        /\ cg.nodes[run.node.Name].FlowsOut =
              old.cg.nodes[run.node.Name].FlowsOut \cup run.node.FlowsOut
        /\ CveOf(cg, heap, run.node.Name) =
              CveOf(old.cg, old.heap, run.node.Name) \cup run.cves
        /\ OwnersOf(cg, heap, run.node.Name) =
              OwnersOf(old.cg, old.heap, run.node.Name)
        /\ TagsOf(cg, heap, run.node.Name) =
              TagsOf(old.cg, old.heap, run.node.Name)

-----------------------------------------------------------------------------
(* Intersect in both directions.                                           *)

\* privaccess: the lone node c, and the call a -> b
ResultsBack ==
    [Vulnerabilities |-> <<>>,
     PrivateAccess |-> << PrivAccess(Sc, 5, <<>>, <<>>),
                          PrivAccess(Sb, 0, <<>>, <<>>) >>,
     Traces |-> Traces]

ExtractingWide ==
    /\ steps < MaxSteps
    /\ \E results \in ResultsInputs \cup {ResultsBack}, analysis \in Analyses :
          ExtractOp(results, analysis)

\* the builders on one more input, and Union
SpecWide == Init /\ [][ExtractingWide \/ Uniting]_vars

\* C23: for the graphs A = cg and B = g, every depth >= 0 and both values
\* of keepBacktrace, A.Intersect(B, depth, kb) and B.Intersect(A, depth, kb)
\* have the same node set.
C23_IntersectSymmetric ==
    \A depth \in Depths, kb \in BOOLEAN :
        (~Intersect(cg, heap, g, depth, kb).div
         /\ ~Intersect(g, heap, cg, depth, kb).div)
            => DOMAIN Intersect(cg, heap, g, depth, kb).graph.nodes =
               DOMAIN Intersect(g, heap, cg, depth, kb).graph.nodes


-----------------------------------------------------------------------------
(* Weights after Intersect.                                                *)

\* the weights an edge has in the operands of the last Intersect
OperandWeights(edges(_), c) ==
    {edges(G)[c] : G \in {G \in {old.cg, IF op.self THEN old.cg ELSE old.g} :
                             c \in DOMAIN edges(G)}}

\* C24: every call and flow edge of the graph returned by Intersect has the
\* weight it has in an operand it was kept from, never the sum of the two
\* operands' weights; so every edge of G.Intersect(G, depth, kb) has the
\* weight it has in G.
C24_IntersectCopiesWeights ==
    op.name = "Intersect" =>
        /\ \A c \in DOMAIN cg.calls :
              cg.calls[c] \in OperandWeights(LAMBDA G : G.calls, c)
        /\ \A c \in DOMAIN cg.flows :
              cg.flows[c] \in OperandWeights(LAMBDA G : G.flows, c)


-----------------------------------------------------------------------------
(* AddIntersecting.                                                        *)

\* the ancestor sets, within op.depth, of the leaves of other that meet
\* the ancestor sets of the leaves cg had
Close(selector) ==
    UNION {Collect(old.g, leaf, selector, op.depth).nodes :
           leaf \in {l \in old.g.leaves :
               Collect(old.g, l, selector, op.depth).nodes
                 \cap UNION {Collect(old.cg, id, selector, op.depth).nodes :
                             id \in old.cg.leaves} # {}}}

\* the edges of `now' are those of `before' and the edges of `other' with
\* both ends in keep, the weights of the latter added
EdgesAdded(now, before, other, keep) ==
    /\ DOMAIN now = DOMAIN before \cup Within(other, keep)
    /\ \A c \in DOMAIN now :
          now[c] = (IF c \in DOMAIN before THEN before[c] ELSE 0)
                   + (IF c \in Within(other, keep) THEN other[c] ELSE 0)

AddedClose(selector) ==
    /\ DOMAIN cg.nodes = DOMAIN old.cg.nodes \cup Close(selector)
    /\ EdgesAdded(cg.calls, old.cg.calls, old.g.calls, Close(selector))
    /\ EdgesAdded(cg.flows, old.cg.flows, old.g.flows, Close(selector))

\* C25: after cg.AddIntersecting(other, depth) the nodes added to cg are the
\* depth-bounded caller-ancestor sets of the leaves of other whose set meets
\* the caller-ancestor sets of the leaves of cg; an edge of other is added,
\* its weight added to cg's, iff both its ends are in that set; and every
\* node and edge cg had is still there with a weight that did not decrease.
C25_AddIntersectingByCallers ==
    op.name = "AddIntersecting" => AddedClose("Callers")


-----------------------------------------------------------------------------
(* Termination of Foreach.                                                 *)

\* the Next references followed from index i reach a negative index or one
\* outside the list
RECURSIVE ChainEnds(_, _, _)
ChainEnds(traces, i, fuel) ==
    IF i < 0 \/ i >= Len(traces) THEN TRUE
    ELSE IF fuel = 0 THEN FALSE
    ELSE ChainEnds(traces, traces[i + 1].Next, fuel - 1)

\* C26: Foreach returns exactly when the Next references followed from the
\* starting trace reach a negative or out-of-range index; when they form a
\* cycle it never returns, and reports no error.
C26_ForeachEndsIffChainEnds ==
    run.name = "Foreach" =>
        /\ ~run.out.div
             <=> ChainEnds(run.traces, run.traces[1].Next, Len(run.traces))
        /\ run.out.div => ~run.out.err

\* a cycle through two traces, and the call that does not return
C26_Witness ==
    /\ run.name = "Foreach"
    /\ Len(run.traces) = 2
    /\ run.traces[1].Next = 1
    /\ run.traces[2].Next = 0
    /\ run.out.div


-----------------------------------------------------------------------------
(* The selection made by Filter.                                           *)

\* out, err := ApplyAnalysis(":" + filter, &cg, ...) with the filters of
\* SpecInputs and one where a - clause comes before *
Filtering ==
    /\ run = NoRun
    /\ \E spec \in {s \in SpecInputs : s # <<>> /\ s[1] = ":"}
                     \cup {<<":", "-", "d", ":", "*">>,
                           <<":", "+", "b", ":", "-", "d", ":", "+", "d">>} :
          ApplyAnalysisOp(spec, ResultsFlows, 0)

\* an accumulator is built, then one filter is applied to it
SpecFilter == Init /\ [][BuildingStored \/ Filtering]_vars

\* a filter whose clauses are all *, +pattern or -pattern
WellFormedFilter(spec) ==
    /\ spec # <<>>
    /\ spec[1] = ":"
    /\ \A clause \in Range(Split(Tail(spec), ":", 1, <<>>)) :
          /\ ~BadClause(clause)
          /\ clause # <<"*">> => Compiles(Tail(clause))

Adds(clause, leaf) ==
    \/ clause = <<"*">>
    \/ clause[1] = "+" /\ MatchString(Tail(clause), NameString(leaf))

Removes(clause, leaf) ==
    /\ clause # <<"*">>
    /\ clause[1] = "-"
    /\ MatchString(Tail(clause), NameString(leaf))

\* the leaves that some clause adds and no later clause removes
Selected(G, clauses) ==
    {leaf \in G.leaves :
        \E i \in 1..Len(clauses) :
            /\ Adds(clauses[i], leaf)
            /\ \A j \in (i + 1)..Len(clauses) : ~Removes(clauses[j], leaf)}

\* the selected leaves of the last filter and all their ancestors
SelectedWithAncestors ==
    Reach(old.cg, Selected(old.cg, Split(Tail(run.spec), ":", 1, <<>>)),
          "AllInputs", Cardinality(DOMAIN old.cg.nodes))

\* `now' is `before' restricted to the edges with both ends in keep
Induced(now, before, keep) ==
    /\ DOMAIN now = Within(before, keep)
    /\ \A c \in DOMAIN now : now[c] = before[c]

\* C27: Filter goes through its clauses from left to right, starting from
\* no leaf: * adds every leaf, +regex the leaves whose name matches, -regex
\* removes the matching leaves from the selection (so a - clause before *
\* has no effect); the graph returned is the subgraph induced by the
\* selected leaves and all their ancestors.
C27_FilterSelectsLeaves ==
    (run.name = "ApplyAnalysis" /\ WellFormedFilter(run.spec)) =>
        /\ run.err = ""
        /\ DOMAIN run.graph.nodes = SelectedWithAncestors
        /\ Induced(run.graph.calls, old.cg.calls, SelectedWithAncestors)
        /\ Induced(run.graph.flows, old.cg.flows, SelectedWithAncestors)

\* all leaves but d: one leaf is removed by -d, another stays with its
\* ancestors
C27_Witness ==
    /\ run.name = "ApplyAnalysis"
    /\ run.spec = <<":", "*", ":", "-", "d">>
    /\ NodeName("d", "") \in old.cg.leaves
    /\ NodeName("d", "") \notin DOMAIN run.graph.nodes
    /\ DOMAIN run.graph.calls # {}


-----------------------------------------------------------------------------
(* Roots and leaves after Intersect and AddIntersecting.                   *)

\* C28: the graph returned by Intersect and the graph changed by
\* AddIntersecting have as roots exactly the nodes that no edge of their
\* own call and flow maps enters, and as leaves exactly the nodes that no
\* such edge leaves, whatever the depth.
C28_IntersectKeepsRootsLeaves ==
    op.name \in {"Intersect", "AddIntersecting"} => RootsLeavesOk(cg)


-----------------------------------------------------------------------------
(* Weights of the edges that Simplified keeps.                             *)

\* the graph with only the calls that start at a node reachable from the
\* roots
ReachablePart(G) ==
    [G EXCEPT !.calls = [c \in {e \in DOMAIN G.calls :
                                   e.Caller \in CallReachable(G)}
                            |-> G.calls[c]]]

\* C29: a call edge of G that Simplified keeps as it is (the result has the
\* very same call, call site included) has the weight it has in G; hence
\* the total call weight of Simplified(G) is that of the part of G
\* reachable from its roots.
C29_SimplifiedKeepsWeights ==
    op.name = "Simplified" =>
        /\ \A c \in DOMAIN cg.calls \cap DOMAIN old.cg.calls :
              cg.calls[c] = old.cg.calls[c]
        /\ TotalWeight(cg) = TotalWeight(ReachablePart(old.cg))


-----------------------------------------------------------------------------
(* parsing.go: ParseJSON, one key of the file at a time, then VulnGraph on *)
(* what it returned.  A name like !trace42 is the pair of its prefix and   *)
(* its number.                                                             *)

\* the trace keys of a file are among !trace0 .. !trace<MaxKeys>, at most
\* MaxKeys of them
MaxKeys == 2

TraceName(n) == <<"!trace", n>>

\* a trace whose last element is not a reference
NoRef == <<>>

\* traceNumber
traceNumber(name) ==
    IF name # <<>> /\ name[1] = "!trace" THEN [num |-> name[2], err |-> FALSE]
    ELSE [num |-> -1, err |-> TRUE]

\* parseTrace(j, traces, index) for j = {"trace": [site..., {"trace_ref"}]}
parseTrace(raw, traces, index) ==
    IF index >= Len(traces)
    THEN [traces |-> traces, err |-> TRUE, panic |-> FALSE]
    ELSE IF index < 0
    THEN [traces |-> traces, err |-> FALSE, panic |-> TRUE]
    ELSE Let([traces EXCEPT ![index + 1] =
                 [CallSites |-> raw.CallSites, Next |-> -1]], LAMBDA own :
         IF raw.Ref = NoRef
         THEN [traces |-> own, err |-> FALSE, panic |-> FALSE]
         ELSE IF traceNumber(raw.Ref).err
                 \/ traceNumber(raw.Ref).num > Len(traces)
         THEN [traces |-> own, err |-> TRUE, panic |-> FALSE]
         ELSE [traces |-> [own EXCEPT ![index + 1].Next =
                                          traceNumber(raw.Ref).num],
               err |-> FALSE, panic |-> FALSE])

\* a file with up to MaxKeys traces, each with one call site and possibly a
\* reference, and one vulnerability; the callback returns or blocks
InitParse ==
    \E K \in {S \in SUBSET (0..MaxKeys) : Cardinality(S) <= MaxKeys} :
    \E traces \in [K -> {[CallSites |-> <<Sa>>, Ref |-> ref] :
                           ref \in {NoRef} \cup
                                   {TraceName(n) : n \in -1..(MaxKeys + 1)}}] :
    \E n \in -1..(MaxKeys + 1), blocks \in BOOLEAN :
        InitRun([name |-> "ParseJSON",
                 file |-> [traces |-> traces,
                           vulns |-> <<[CallSite |-> Sd,
                                        TraceName |-> TraceName(n)]>>],
                 blocks |-> blocks, pc |-> "start", pending |-> 0,
                 todo |-> {},
                 soaap |-> [Vulnerabilities |-> <<>>, PrivateAccess |-> <<>>,
                            Traces |-> <<>>],
                 err |-> FALSE, panic |-> FALSE,
                 built |-> [err |-> FALSE, panic |-> FALSE, div |-> FALSE]])

\* go progress("Loading"), decoder.Decode, make([]CallTrace, len(raw))
Loading ==
    /\ run.name = "ParseJSON" /\ run.pc = "start"
    /\ run' = [run EXCEPT
                 !.pc = "loop",
                 !.pending = @ + 1,
                 !.todo = {TraceName(k) : k \in DOMAIN run.file.traces}
                             \cup {<<"vulnerability_warning", 0>>},
                 !.soaap.Traces =
                     [i \in 1..(Cardinality(DOMAIN run.file.traces) + 1) |->
                        [CallSites |-> <<>>, Next |-> 0]]]
    /\ UNCHANGED <<cg, g, heap, sv, op, old, steps>>

\* one iteration of the loop over the keys, in the order the map yields
ParseKey ==
    /\ run.name = "ParseJSON" /\ run.pc = "loop"
    /\ \E k \in run.todo :
          IF k[1] = "vulnerability_warning"
          THEN IF \E i \in DOMAIN run.file.vulns :
                      traceNumber(run.file.vulns[i].TraceName).err
               THEN run' = [run EXCEPT
                              !.pc = "returned", !.err = TRUE,
                              !.soaap = [Vulnerabilities |-> <<>>,
                                         PrivateAccess |-> <<>>,
                                         Traces |-> <<>>]]
               ELSE run' = [run EXCEPT
                              !.todo = @ \ {k},
                              !.soaap.Vulnerabilities =
                                  [i \in DOMAIN run.file.vulns |->
                                     Vuln(run.file.vulns[i].CallSite,
                                          traceNumber(
                                            run.file.vulns[i].TraceName).num,
                                          "", <<"CVE-1">>)]]
          ELSE IF traceNumber(k).err
          THEN run' = [run EXCEPT !.pc = "returned", !.err = TRUE]
          ELSE \E r \in {parseTrace(run.file.traces[traceNumber(k).num],
                                    run.soaap.Traces, traceNumber(k).num)} :
                  run' = [run EXCEPT
                            !.todo = @ \ {k},
                            !.soaap.Traces = r.traces,
                            !.pc = IF r.err \/ r.panic THEN "returned" ELSE @,
                            !.err = r.err, !.panic = r.panic]
    /\ UNCHANGED <<cg, g, heap, sv, op, old, steps>>

\* progress("Finished parsing"): the callback is called by ParseJSON itself
Finishing ==
    /\ run.name = "ParseJSON" /\ run.pc = "loop" /\ run.todo = {}
    /\ run' = [run EXCEPT !.pc = "progress"]
    /\ UNCHANGED <<cg, g, heap, sv, op, old, steps>>

\* the callback returns to ParseJSON, which returns soaap, nil
ProgressReturns ==
    /\ run.name = "ParseJSON" /\ run.pc = "progress" /\ ~run.blocks
    /\ run' = [run EXCEPT !.pc = "returned"]
    /\ UNCHANGED <<cg, g, heap, sv, op, old, steps>>

\* a callback started with go returns, in its own goroutine
Notified ==
    /\ run.name = "ParseJSON" /\ run.pending > 0 /\ ~run.blocks
    /\ run' = [run EXCEPT !.pending = @ - 1]
    /\ UNCHANGED <<cg, g, heap, sv, op, old, steps>>

\* g, err := results.ExtractGraph("vuln", progress) on the parsed results
BuildingParsed ==
    /\ run.name = "ParseJSON" /\ run.pc = "returned"
    /\ ~run.err /\ ~run.panic
    /\ \E b \in {ExtractGraph(run.soaap, "vuln", heap)} :
          /\ run' = [run EXCEPT !.pc = "built",
                                !.built = [err |-> b.err,
                                           panic |-> b.heap.panic,
                                           div |-> b.div]]
          /\ g' = IF b.div \/ b.heap.panic THEN g ELSE b.graph
          /\ heap' = IF b.div \/ b.heap.panic THEN heap ELSE b.heap
          /\ op' = [NoOp EXCEPT !.name = "ExtractGraph", !.err = b.err]
          /\ old' = Snapshot
          /\ steps' = steps + 1
    /\ UNCHANGED <<cg, sv>>

SpecParse ==
    InitParse /\ [][Loading \/ ParseKey \/ Finishing \/ ProgressReturns
                    \/ Notified \/ BuildingParsed]_vars

\* C21: parsing never waits on the progress consumer: ParseJSON is never
\* inside a call of the callback that does not return, so it runs to
\* completion also when the callback blocks forever.
C21_NeverWaitsOnProgress ==
    run.name = "ParseJSON" => ~(run.pc = "progress" /\ run.blocks)


-----------------------------------------------------------------------------
(* Dangling trace references.                                              *)

\* the vulnerability or the reference of a trace names a trace that the
\* file does not define
Dangling(file) ==
    \/ \E i \in DOMAIN file.vulns :
          file.vulns[i].TraceName[2] \notin DOMAIN file.traces
    \/ \E k \in DOMAIN file.traces :
          /\ file.traces[k].Ref # NoRef
          /\ file.traces[k].Ref[2] \notin DOMAIN file.traces

\* the references followed from trace k leave the traces of the file or
\* come to a trace without reference
RECURSIVE RefsEnd(_, _, _)
RefsEnd(traces, k, fuel) ==
    IF k \notin DOMAIN traces \/ traces[k].Ref = NoRef THEN TRUE
    ELSE IF fuel = 0 THEN FALSE
    ELSE RefsEnd(traces, traces[k].Ref[2], fuel - 1)

\* C30: when the vulnerability's trace or a trace's reference names a trace
\* that is out of range, negative or not defined in the file (and the
\* traces that are defined do not refer to each other in a cycle),
\* ParseJSON or the graph builder returns an error: neither crashes,
\* the builder does not hang, and none returns a result without error.
C30_DanglingIsAnError ==
    (/\ run.name = "ParseJSON"
     /\ Dangling(run.file)
     /\ \A k \in DOMAIN run.file.traces :
           RefsEnd(run.file.traces, k, Cardinality(DOMAIN run.file.traces)))
        => /\ ~run.panic
           /\ run.pc = "built" =>
                 /\ run.built.err
                 /\ ~run.built.panic
                 /\ ~run.built.div

=============================================================================
